---- MODULE Spec2Model ----
(***************************************************************************)
(* Model of the text-repair core of patent_generator_colab.py: the figure  *)
(* catalog and context resolver, the ordered reference-repair stages of    *)
(* fix_all_figure_references, and the claims extractor.                    *)
(*                                                                         *)
(* Texts are strings; TLC treats a string as the sequence of its           *)
(* characters (Len, SubSeq and \o apply).  The regular expressions of the *)
(* source are transcribed one to one as pattern trees and run by a        *)
(* backtracking matcher with the priority order of Python's re module.    *)
(***************************************************************************)
EXTENDS Integers, Sequences, FiniteSets, TLC

VARIABLES
  input,    \* the text handed to the operation under study
  text,     \* the local variable `text` of fix_all_figure_references
  pc,       \* position of the running operation
  stage,    \* the STEP of fix_all_figure_references that runs next
  run,      \* how many times the repair sequence has been started on this text
  first,    \* what the first complete repair run returned
  fig,      \* value returned by get_figure_number_from_context
  scope,    \* the local variable `search` of extract_claims
  cands,    \* the matches pattern.finditer(search) yields
  idx,      \* the match the loop of extract_claims is at
  seen,     \* the local variable `seen` of extract_claims
  claims,   \* the local variable `claims` of extract_claims, returned at the end
  lines,    \* the local variable `lines` of parse_sections
  line,     \* the line the loop of parse_sections is at
  current,  \* the local variable `current` of parse_sections
  content,  \* the local variable `content` of parse_sections
  sections, \* the local variable `sections` of parse_sections (role -> text)
  exists,   \* os.path.exists(TEXT_SOURCE_PDF) when main runs
  calls,    \* the functions main has called so far, in order
  handed,   \* the claims argument of build_patent_pdf
  result,   \* what main returned
  parts,    \* the pieces make_paragraphs split its content into
  part,     \* the piece the loop of make_paragraphs is at
  sents,    \* the sentences of the piece that could not be packaged
  sent,     \* the sentence the inner loop of make_paragraphs is at
  paragraphs, \* the local variable `result` of make_paragraphs, returned at the end
  log       \* what make_paragraphs has printed or logged

\* the variables of parse_sections and of main
segmenter == <<lines, line, current, content>>
segv == <<segmenter, sections>>
mainv == <<exists, calls, handed, result>>
\* the variables of make_paragraphs
parav == <<parts, part, sents, sent, paragraphs, log>>

vars == <<input, text, pc, stage, run, first, fig, scope, cands, idx, seen, claims, segv, mainv, parav>>

(***************************************************************************)
(* Characters                                                              *)
(***************************************************************************)
Ch(s, i) == SubSeq(s, i, i)

Chars(s) == {Ch(s, i) : i \in 1..Len(s)}

UPPER == "ABCDEFGHIJKLMNOPQRSTUVWXYZ"
LOWER == "abcdefghijklmnopqrstuvwxyz"
DIGITS == "0123456789"

Upper == Chars(UPPER)
Letter == Chars(UPPER) \cup Chars(LOWER)
Digit == Chars(DIGITS)
\* \s of the re module, on the ASCII range
Space == {" ", "\t", "\n", "\r", "\f"}
\* \w of the re module, on the ASCII range
Word == Letter \cup Digit \cup {"_"}

LowerOf == [c \in Upper |-> Ch(LOWER, CHOOSE i \in 1..26 : Ch(UPPER, i) = c)]

LowerCh(c) == IF c \in Upper THEN LowerOf[c] ELSE c

UpperCh(c) ==
  IF \E i \in 1..26 : Ch(LOWER, i) = c
  THEN Ch(UPPER, CHOOSE i \in 1..26 : Ch(LOWER, i) = c)
  ELSE c

\* Character-wise maps are computed on the two halves of the string, which
\* keeps the evaluation shallow on long texts.
RECURSIVE lower(_)
\* str.lower()
lower(s) ==
  IF Len(s) = 0 THEN ""
  ELSE IF Len(s) = 1 THEN LowerCh(s)
  ELSE LET h == Len(s) \div 2
       IN  lower(SubSeq(s, 1, h)) \o lower(SubSeq(s, h + 1, Len(s)))

RECURSIVE upper(_)
\* str.upper()
upper(s) ==
  IF Len(s) = 0 THEN ""
  ELSE IF Len(s) = 1 THEN UpperCh(s)
  ELSE LET h == Len(s) \div 2
       IN  upper(SubSeq(s, 1, h)) \o upper(SubSeq(s, h + 1, Len(s)))

\* the `in` operator on strings
Contains(s, k) == \E i \in 1..(Len(s) - Len(k) + 1) : SubSeq(s, i, i + Len(k) - 1) = k

\* the elements of a sequence
Range(q) == {q[i] : i \in 1..Len(q)}

\* the least (greatest) element of a set of integers, none when it is empty
Least(S, none) == LET T == S IN IF T = {} THEN none ELSE CHOOSE i \in T : \A j \in T : i <= j
Greatest(S, none) == LET T == S IN IF T = {} THEN none ELSE CHOOSE i \in T : \A j \in T : j <= i

\* str.rstrip(): cut after the last character that is not whitespace
rstrip(s) == SubSeq(s, 1, Greatest({i \in 1..Len(s) : Ch(s, i) \notin Space}, 0))

\* str.lstrip(): cut before the first character that is not whitespace
lstrip(s) == SubSeq(s, Least({i \in 1..Len(s) : Ch(s, i) \notin Space}, Len(s) + 1), Len(s))

\* str.strip()
strip(s) == lstrip(rstrip(s))

RECURSIVE int(_)
\* int() of a string of decimal digits
int(s) ==
  IF s = "" THEN 0
  ELSE 10 * int(SubSeq(s, 1, Len(s) - 1))
       + ((CHOOSE i \in 1..10 : Ch(DIGITS, i) = Ch(s, Len(s))) - 1)

RECURSIVE str(_)
\* the decimal rendering of a natural number, as an f-string does it
str(n) == IF n < 10 THEN Ch(DIGITS, n + 1) ELSE str(n \div 10) \o Ch(DIGITS, (n % 10) + 1)

(***************************************************************************)
(* Patterns: the syntax tree of a regular expression                       *)
(***************************************************************************)
\* a pattern that takes no decision: a literal, a character set, an anchor.
\* ls and lcs are the literal and the set as re.IGNORECASE compares them, in
\* lower case
Atom(k, s, cs) == [k |-> k, s |-> s, ls |-> lower(s), cs |-> cs, lcs |-> {LowerCh(c) : c \in cs}]

\* does the pattern of kind k with the parts sub open with its first part
Opens(k, lo, sub) == k \in {"cat", "grp", "ahead"} \/ (k = "rep" /\ lo > 0)

\* open is an atom that stands wherever the pattern matches: what the pattern
\* opens with
Node(k, s, cs, lo, hi, greedy, sub) ==
  [k |-> k, s |-> s, ls |-> lower(s), cs |-> cs, lcs |-> {LowerCh(c) : c \in cs},
   lo |-> lo, hi |-> hi, greedy |-> greedy, sub |-> sub,
   open |-> IF Opens(k, lo, sub) THEN sub[1].open ELSE Atom(k, s, cs)]

Lit(s)        == Node("lit", s, {}, 0, 0, TRUE, <<>>)      \* literal text
Cls(cs)       == Node("cls", "", cs, 0, 0, TRUE, <<>>)     \* [..], \s, \d, \w
NotCls(cs)    == Node("ncls", "", cs, 0, 0, TRUE, <<>>)    \* [^..]
AnyCh         == Node("any", "", {}, 0, 0, TRUE, <<>>)     \* . under re.S
Cat(sub)      == Node("cat", "", {}, 0, 0, TRUE, sub)      \* concatenation
Alt(sub)      == Node("alt", "", {}, 0, 0, TRUE, sub)      \* a|b
Rep(n, lo, hi) == Node("rep", "", {}, lo, hi, TRUE, <<n>>) \* {lo,hi}; hi = -1: no limit
Lazy(n, lo, hi) == Node("rep", "", {}, lo, hi, FALSE, <<n>>)
Star(n)       == Rep(n, 0, -1)                             \* n*
Plus(n)       == Rep(n, 1, -1)                             \* n+
Opt(n)        == Rep(n, 0, 1)                              \* n?
LazyStar(n)   == Lazy(n, 0, -1)                            \* n*?
Grp(g, n)     == Node("grp", "", {}, g, 0, TRUE, <<n>>)    \* capturing group g
GrpEnd(g)     == Node("gend", "", {}, g, 0, TRUE, <<>>)
Ahead(n)      == Node("ahead", "", {}, 0, 0, TRUE, <<n>>)  \* (?=n)
NotAhead(n)   == Node("nahead", "", {}, 0, 0, TRUE, <<n>>) \* (?!n)
Bol           == Node("bol", "", {}, 0, 0, TRUE, <<>>)     \* ^ without re.M
Eol           == Node("eol", "", {}, 0, 0, TRUE, <<>>)     \* $ without re.M
Eos           == Node("eos", "", {}, 0, 0, TRUE, <<>>)     \* \Z
Ref(g)        == Node("ref", "", {}, g, 0, TRUE, <<>>)     \* \g

ws  == Cls(Space)
dig == Cls(Digit)
wd  == Cls(Word)

(***************************************************************************)
(* The matcher.  ks is the list of patterns still to be matched from      *)
(* position i of t; alternatives are tried in the order of the re module  *)
(* (left alternative first, greedy repetition longest first, lazy         *)
(* repetition shortest first) and the first success is the match.         *)
(* Under re.IGNORECASE (ic) the subject t is handed over in lower case    *)
(* and is compared with the patterns in lower case; positions are those   *)
(* of the subject as it was.                                              *)
(***************************************************************************)
NoMatch == [ok |-> FALSE, e |-> 0, caps |-> <<>>]

NoCaps == <<<<0, 0>>, <<0, 0>>>>

\* the subject as the matcher reads it
Subject(t, ic) == IF ic THEN lower(t) ELSE t

\* the text s stands at position i
TextAt(t, s, i) == i + Len(s) - 1 <= Len(t) /\ SubSeq(t, i, i + Len(s) - 1) = s

\* the literal n stands at position i
LitAt(t, ic, n, i) == TextAt(t, IF ic THEN n.ls ELSE n.s, i)

\* the element of a one-element set
Only(S) == CHOOSE x \in S : TRUE

\* the first of two attempts that succeeds (the second is made only when the
\* first fails)
FirstOk(r1, r2) == IF r1.ok THEN r1 ELSE r2

\* does the one-character pattern n match the character at j
Fits(t, ic, n, j) ==
  n.k = "any" \/ ((SubSeq(t, j, j) \in (IF ic THEN n.lcs ELSE n.cs)) = (n.k = "cls"))

OneChar(n) == n.k \in {"cls", "ncls", "any"}

\* where the run of characters that the one-character pattern n matches from i
\* on ends: the first position up to last that n does not match, else last + 1
RunEnd(t, ic, n, i, last) ==
  CHOOSE j \in i..(last + 1) :
    (j = last + 1 \/ ~Fits(t, ic, n, j)) /\ \A k \in i..(j - 1) : Fits(t, ic, n, k)

\* the last position a repetition {lo,hi} that starts at i may take
LastOf(t, hi, i) == IF hi >= 0 /\ i + hi - 1 < Len(t) THEN i + hi - 1 ELSE Len(t)

\* the repetition that follows one turn of the repetition n
Again(n) ==
  [n EXCEPT !.lo = IF n.lo > 0 THEN n.lo - 1 ELSE 0, !.hi = IF n.hi > 0 THEN n.hi - 1 ELSE n.hi,
            !.open = IF n.lo > 1 THEN n.open ELSE Atom("rep", "", {})]

\* a repetition of a one-character pattern: tries holds, for every admissible
\* length L, the match r of the rest after L characters; backtracking arrives
\* at the longest length whose r succeeds when greedy, at the shortest when lazy
Longest(good) == CHOOSE p \in good : \A q \in good : q.L <= p.L
Shortest(good) == CHOOSE p \in good : \A q \in good : p.L <= q.L

AfterRun(tries, greedy) ==
  CHOOSE r \in {IF good = {} THEN NoMatch
                ELSE IF greedy THEN Longest(good).r ELSE Shortest(good).r :
                  good \in {{p \in tries : p.r.ok}}} : TRUE

\* the length a repetition {lo,top} tries first, and the lengths it falls back on
FirstLen(n, top) == IF n.greedy THEN top ELSE n.lo
OtherLens(n, top) == IF n.greedy THEN n.lo..(top - 1) ELSE (n.lo + 1)..top

\* r1 is the match of the rest after the first length tried, tries the matches
\* after the other lengths
RunOf(n, r1, tries) == IF r1.ok THEN r1 ELSE AfterRun(tries, n.greedy)

\* the most characters the repetition ks[1] of a one-character pattern may take at i
TopAt(t, ic, ks, i) == RunEnd(t, ic, ks[1].sub[1], i, LastOf(t, ks[1].hi, i)) - i

\* the repetition ks[1] is one of a one-character pattern
OneCharRep(ks) == ks[1].k = "rep" /\ OneChar(ks[1].sub[1])

\* the one-character pattern n matches the character at i
OneAt(t, ic, n, i) == i <= Len(t) /\ Fits(t, ic, n, i)

\* the pattern n surely does not match from i on: what it opens with is not there
CannotStart(t, ic, n, i) ==
  \/ n.open.k = "lit" /\ ~TextAt(t, IF ic THEN n.open.ls ELSE n.open.s, i)
  \/ OneChar(n.open) /\ ~OneAt(t, ic, n.open, i)
  \/ n.open.k = "bol" /\ i # 1
  \/ n.open.k = "eos" /\ i # Len(t) + 1

\* the pattern that has to match where the repetition ks[1] stops (the end of
\* a group takes no characters)
After(ks) == IF ks[2].k = "gend" /\ Len(ks) > 2 THEN ks[3] ELSE ks[2]

\* the repetition ks[1] of a one-character pattern can only stop after top
\* characters: the rest surely does not match after fewer
NoShorter(t, ic, ks, i, top) ==
  Len(ks) = 1 \/ \A L \in ks[1].lo..(top - 1) : CannotStart(t, ic, After(ks), i + L)

RECURSIVE M(_, _, _, _, _)

\* the patterns ks matched from position i of t on: pattern ks[1], then the
\* rest.  An arm whose pattern fails, or leaves one way to go on, comes before
\* the arm that has to choose.
M(t, ic, ks, i, caps) ==
  CASE ks = <<>> -> [ok |-> TRUE, e |-> i, caps |-> caps]
    [] ks[1].k = "lit" /\ ~LitAt(t, ic, ks[1], i) -> NoMatch
    [] ks[1].k = "lit" -> M(t, ic, Tail(ks), i + Len(ks[1].s), caps)
    [] OneChar(ks[1]) /\ ~OneAt(t, ic, ks[1], i) -> NoMatch
    [] OneChar(ks[1]) -> M(t, ic, Tail(ks), i + 1, caps)
    [] ks[1].k = "cat" -> M(t, ic, ks[1].sub \o Tail(ks), i, caps)
    [] ks[1].k = "alt" /\ ks[1].sub = <<>> -> NoMatch
    [] ks[1].k = "alt" /\ CannotStart(t, ic, Head(ks[1].sub), i) ->
         M(t, ic, <<Alt(Tail(ks[1].sub))>> \o Tail(ks), i, caps)
    [] ks[1].k = "alt" /\ Len(ks[1].sub) = 1 -> M(t, ic, ks[1].sub \o Tail(ks), i, caps)
    [] ks[1].k = "alt" ->
         FirstOk(M(t, ic, <<Head(ks[1].sub)>> \o Tail(ks), i, caps),
                 M(t, ic, <<Alt(Tail(ks[1].sub))>> \o Tail(ks), i, caps))
    [] OneCharRep(ks) /\ TopAt(t, ic, ks, i) < ks[1].lo -> NoMatch
    [] OneCharRep(ks) /\ TopAt(t, ic, ks, i) = ks[1].lo -> M(t, ic, Tail(ks), i + ks[1].lo, caps)
    [] OneCharRep(ks) /\ NoShorter(t, ic, ks, i, TopAt(t, ic, ks, i)) ->
         M(t, ic, Tail(ks), i + TopAt(t, ic, ks, i), caps)
    [] OneCharRep(ks) ->
         RunOf(ks[1],
               M(t, ic, Tail(ks), i + FirstLen(ks[1], TopAt(t, ic, ks, i)), caps),
               {[L |-> L, r |-> M(t, ic, Tail(ks), i + L, caps)] :
                  L \in OtherLens(ks[1], TopAt(t, ic, ks, i))})
    \* a repetition takes one more turn, or stops
    [] ks[1].k = "rep" /\ ks[1].hi = 0 /\ ks[1].lo > 0 -> NoMatch
    [] ks[1].k = "rep" /\ ks[1].hi = 0 -> M(t, ic, Tail(ks), i, caps)
    [] ks[1].k = "rep" /\ ks[1].lo > 0 ->
         M(t, ic, <<ks[1].sub[1], Again(ks[1])>> \o Tail(ks), i, caps)
    [] ks[1].k = "rep" /\ CannotStart(t, ic, ks[1].sub[1], i) -> M(t, ic, Tail(ks), i, caps)
    [] ks[1].k = "rep" /\ ks[1].greedy ->
         FirstOk(M(t, ic, <<ks[1].sub[1], Again(ks[1])>> \o Tail(ks), i, caps),
                 M(t, ic, Tail(ks), i, caps))
    [] ks[1].k = "rep" ->
         FirstOk(M(t, ic, Tail(ks), i, caps),
                 M(t, ic, <<ks[1].sub[1], Again(ks[1])>> \o Tail(ks), i, caps))
    [] ks[1].k = "grp" ->
         M(t, ic, <<ks[1].sub[1], GrpEnd(ks[1].lo)>> \o Tail(ks), i,
           [caps EXCEPT ![ks[1].lo] = <<i, i - 1>>])
    [] ks[1].k = "gend" ->
         M(t, ic, Tail(ks), i, [caps EXCEPT ![ks[1].lo] = <<caps[ks[1].lo][1], i - 1>>])
    [] ks[1].k = "ahead" /\ ~M(t, ic, ks[1].sub, i, caps).ok -> NoMatch
    [] ks[1].k = "nahead" /\ M(t, ic, ks[1].sub, i, caps).ok -> NoMatch
    [] ks[1].k \in {"ahead", "nahead"} -> M(t, ic, Tail(ks), i, caps)
    [] ks[1].k = "bol" /\ i # 1 -> NoMatch
    [] ks[1].k = "eol" /\ ~(i = Len(t) + 1 \/ (i = Len(t) /\ Ch(t, i) = "\n")) -> NoMatch
    [] ks[1].k = "eos" /\ i # Len(t) + 1 -> NoMatch
    [] ks[1].k \in {"bol", "eol", "eos"} -> M(t, ic, Tail(ks), i, caps)
    [] ks[1].k = "ref" /\ ~TextAt(t, SubSeq(t, caps[ks[1].lo][1], caps[ks[1].lo][2]), i) -> NoMatch
    [] ks[1].k = "ref" ->
         M(t, ic, Tail(ks), i + (caps[ks[1].lo][2] - caps[ks[1].lo][1] + 1), caps)

\* A match object: m.s..m.e-1 is the matched span (match.start(), match.end() are
\* m.s-1 and m.e-1 in Python's 0-based positions)
Span(r, i) == [ok |-> r.ok, s |-> i, e |-> r.e, caps |-> r.caps]

MatchAt(t, ic, re, i) == Span(M(t, ic, <<re>>, i, NoCaps), i)

group(t, m, g) == IF g = 0 THEN SubSeq(t, m.s, m.e - 1) ELSE SubSeq(t, m.caps[g][1], m.caps[g][2])

\* the positions at which the pattern matches
Starts(t, ic, re) == {i \in 1..(Len(t) + 1) : M(t, ic, <<re>>, i, NoCaps).ok}

RECURSIVE FindFrom(_, _, _, _, _)

\* where the scan goes on after the match v: at its end, one further on after
\* an empty match
Found1(v) == [ms |-> <<v>>, pos |-> IF v.e > v.s THEN v.e ELSE v.s + 1]

\* the scan of the later positions after the earlier ones have been scanned
FindAfter(left, right) == [ms |-> left.ms \o right.ms, pos |-> right.pos]

\* the position in the middle of the positions C
Middle(C) == CHOOSE i \in C : Cardinality({j \in C : j < i}) = Cardinality(C) \div 2

\* the scan of re.finditer over the start positions C, none of them before pos,
\* where the scan has arrived: the matches that start there, leftmost first and
\* none overlapping, and the position the scan has reached (the positions are
\* scanned by halves, which keeps the evaluation shallow on long texts)
FindFrom(t, ic, re, C, pos) ==
  CASE C = {} -> [ms |-> <<>>, pos |-> pos]
    [] Cardinality(C) = 1 -> Found1(MatchAt(t, ic, re, Only(C)))
    [] OTHER ->
         CHOOSE both \in
           {FindAfter(left, FindFrom(t, ic, re, {i \in C : i >= Middle(C) /\ i >= left.pos},
                                     left.pos)) :
              left \in {FindFrom(t, ic, re, {i \in C : i < Middle(C)}, pos)}} : TRUE

\* re.finditer: the non-overlapping matches, leftmost first
finditer(t, ic, re) ==
  CHOOSE ms \in {FindFrom(s, ic, re, Starts(s, ic, re), 1).ms : s \in {Subject(t, ic)}} : TRUE

NoneFound == [ok |-> FALSE, s |-> 0, e |-> 0, caps |-> NoCaps]

FirstAt(t, ic, re, starts) ==
  IF starts = {} THEN NoneFound ELSE MatchAt(t, ic, re, Least(starts, 0))

\* re.search: the leftmost match, or a record with ok = FALSE
search(t, ic, re) ==
  CHOOSE m \in {FirstAt(s, ic, re, Starts(s, ic, re)) : s \in {Subject(t, ic)}} : TRUE

\* the text with the matches ms replaced: every match is replaced by R(match),
\* the text between matches is copied (pieces joined by halves)
Rebuild(t, ms, R(_)) ==
  LET out[a \in 1..(Len(ms) + 1), b \in 0..Len(ms)] ==
        IF a > b THEN ""
        ELSE IF a = b
        THEN SubSeq(t, IF a = 1 THEN 1 ELSE ms[a - 1].e, ms[a].s - 1) \o R(ms[a])
        ELSE out[a, (a + b) \div 2] \o out[((a + b) \div 2) + 1, b]
  IN  out[1, Len(ms)] \o SubSeq(t, IF ms = <<>> THEN 1 ELSE ms[Len(ms)].e, Len(t))

\* re.sub with a replacement function (the subject string is a value, and the
\* matches are found, before the first replacement is computed)
sub(t, ic, re, R(_)) ==
  CHOOSE r \in {Rebuild(sm[1], sm[2], R) : sm \in {<<t, finditer(t, ic, re)>>}} : TRUE

(***************************************************************************)
(* CELL 4: the figure catalog (number and keywords of each entry)          *)
(***************************************************************************)
FIGURES ==
  <<
    [num |-> 1, keywords |-> <<"system architecture", "architecture overview", "spi system", "complete system", "overall system", "main system", "overall architecture", "system overview", "high-level", "system diagram">>],
    [num |-> 2, keywords |-> <<"processing pipeline", "pipeline", "workflow", "end-to-end", "process flow", "data flow", "ingestion", "transcription", "media processing", "content processing">>],
    [num |-> 3, keywords |-> <<"semantic dna", "fingerprint", "768", "component vector", "combined vector", "dna structure", "128-dimensional", "six vectors", "fingerprint structure", "vector structure", "semantic fingerprint">>],
    [num |-> 4, keywords |-> <<"narrative", "three-act", "character arc", "story structure", "plot", "thematic", "narrative vector", "story analysis", "conflict progression", "narrative extraction">>],
    [num |-> 5, keywords |-> <<"visual grammar", "visual analysis", "composition", "color palette", "visual feature", "image analysis", "visual vector", "motion dynamics", "stylistic", "visual content">>],
    [num |-> 6, keywords |-> <<"auditory", "audio", "prosody", "soundscape", "speech", "music feature", "audio analysis", "sound", "auditory vector", "audio extraction", "speech analysis">>],
    [num |-> 7, keywords |-> <<"temporal", "rhythm", "scene transition", "pacing", "shot", "timing", "temporal vector", "rhythm analysis", "shot duration", "temporal structure", "time-based", "temporal rhythm">>],
    [num |-> 8, keywords |-> <<"emotional", "trajectory", "valence", "arousal", "dominance", "vad", "sentiment", "emotional vector", "emotion tracking", "emotional progression", "emotional mapping", "affect", "mood">>],
    [num |-> 9, keywords |-> <<"creative qc", "parameter", "33", "taxonomy", "assessment", "quality control", "seven categories", "qc parameter", "quality assessment", "parameter framework", "33 parameters">>],
    [num |-> 10, keywords |-> <<"complete workflow", "full workflow", "spi workflow", "data flow diagram", "full system", "ai provider", "parallel analysis", "result delivery", "complete spi">>],
    [num |-> 11, keywords |-> <<"multi-modal", "fusion", "attention", "cross-modal", "multimodal", "combining", "attention-based", "unified fingerprint", "modal fusion", "cross-modal attention">>],
    [num |-> 12, keywords |-> <<"database", "schema", "postgresql", "pgvector", "storage", "data model", "vector index", "database schema", "data storage", "similarity index">>],
    [num |-> 13, keywords |-> <<"api", "endpoint", "webhook", "rest", "integration", "interface", "api layer", "rest api", "external integration", "api specification">>],
    [num |-> 14, keywords |-> <<"deployment", "cloud", "kubernetes", "scaling", "infrastructure", "hosting", "cloud-native", "auto-scaling", "load balancing", "deployment topology">>],
    [num |-> 15, keywords |-> <<"security", "anti-abuse", "adversarial", "rate limit", "access control", "authentication", "security framework", "rbac", "security layer", "abuse prevention">>],
    [num |-> 16, keywords |-> <<"copyright", "rights", "ledger", "licensing", "royalty", "drm", "rights ledger", "smart contract", "content identification", "royalty distribution">>],
    [num |-> 17, keywords |-> <<"drift", "calibration", "monitoring", "baseline", "recalibration", "model drift", "drift detection", "drift quantification", "alert threshold", "model monitoring", "drift graphics", "semantic drift">>]
  >>

\* number of catalog entries, as the repair stages spell it
NumFigures == 17

\* window sizes, in characters, of the context handed to the resolver
WinEmptyBefore == 400
WinEmptyAfter == 100
WinAndBefore == 300
WinStandaloneBefore == 300
WinImplicitBefore == 500
WinImplicitAfter == 200
WinTrailingBefore == 500
WinFinalBefore == 400
\* how much of the following text is searched for an existing marker
NearbyLen == 20

(***************************************************************************)
(* CELL 5: the context resolver                                            *)
(***************************************************************************)
\* the (figure, keyword) pairs in the order the two nested loops visit them
RECURSIVE KeywordsFrom(_)
KeywordsFrom(k) ==
  IF k > Len(FIGURES) THEN <<>>
  ELSE [j \in 1..Len(FIGURES[k].keywords) |->
          [num |-> FIGURES[k].num, keyword |-> FIGURES[k].keywords[j]]]
       \o KeywordsFrom(k + 1)

Keywords == KeywordsFrom(1)

\* the test `keyword in context_lower` of turn k of the inner loop
Occurs(context_lower, k) == Contains(context_lower, Keywords[k].keyword)

\* the score computed in turn k (its keyword occurs in the window)
KeywordScore(context_lower, keyword) ==
  Len(keyword) * 2
  + (IF Contains(" " \o context_lower \o " ", " " \o keyword \o " ") THEN 5 ELSE 0)

\* score >= best_score in place of score > best_score
AtLeastScore(score, best_score) == score >= best_score

\* if score > best_score
BetterScore(score, best_score) == score > best_score

\* best_fig and best_score after turn k, whose keyword occurs in the window
Update(k, score, b) ==
  IF BetterScore(score, b.best_score)
  THEN [best_fig |-> Keywords[k].num, best_score |-> score]
  ELSE b

Visit(context_lower, k, b) == Update(k, KeywordScore(context_lower, Keywords[k].keyword), b)

RECURSIVE Loop(_, _, _)
\* the two nested loops: a turn whose keyword does not occur in the window
\* leaves best_fig and best_score alone, so the turns in `turns` (those whose
\* keyword occurs) are taken in loop order
Loop(context_lower, turns, b) ==
  IF turns = {} THEN b
  ELSE Loop(context_lower, turns \ {Least(turns, 0)}, Visit(context_lower, Least(turns, 0), b))

\* variant of the loop that starts from no figure instead of figure 1
BestInUnset(context_lower) ==
  Loop(context_lower, {k \in 1..Len(Keywords) : Occurs(context_lower, k)},
       [best_fig |-> 0, best_score |-> 0])

BestIn(context_lower) ==
  Loop(context_lower, {k \in 1..Len(Keywords) : Occurs(context_lower, k)},
       [best_fig |-> 1, best_score |-> 0])

BestFigure(context_text) == BestIn(lower(context_text))

get_figure_number_from_context(context_text) == BestFigure(context_text).best_fig

(***************************************************************************)
(* CELL 5: fix_all_figure_references, stage by stage                       *)
(***************************************************************************)
max(a, b) == IF a > b THEN a ELSE b
min(a, b) == IF a < b THEN a ELSE b

\* Python's 0-based match.start(), match.end() and text[a:b]
start0(m) == m.s - 1
end0(m) == m.e - 1
slice(t, a, b) == SubSeq(t, a + 1, min(b, Len(t)))

FIG == Lit("FIG")
dot == Lit(".")

\* STEP 0: "FIG FIG." duplications
re_dup_num  == Cat(<<FIG, Opt(dot), Plus(ws), FIG, Opt(dot), Star(ws), Grp(1, Plus(dig))>>)
re_dup_bare == Cat(<<FIG, Plus(ws), FIG, Plus(ws)>>)

step0a(text0) == sub(text0, TRUE, re_dup_num, LAMBDA m : "FIG. " \o group(text0, m, 1))
step0b(text0) == sub(text0, TRUE, re_dup_bare, LAMBDA m : "FIG. ")

step0(text0) == step0b(step0a(text0))

\* variant of the STEP 1 pattern whose group of trailing numbers is taken once
\* instead of one or more times
re_multi_once ==
  Cat(<<FIG, Opt(dot), Star(ws), Grp(1, Rep(dig, 1, 2)),
        Cat(<<Star(ws), dot, Star(ws), Plus(dig)>>), Opt(dot)>>)

\* STEP 1: "FIG. 1. 1." or "FIG. 17. 6. 6."
re_multi ==
  Cat(<<FIG, Opt(dot), Star(ws), Grp(1, Rep(dig, 1, 2)),
        Plus(Cat(<<Star(ws), dot, Star(ws), Plus(dig)>>)), Opt(dot)>>)

step1(text0) == sub(text0, TRUE, re_multi, LAMBDA m : "FIG. " \o group(text0, m, 1))

\* STEP 2: "FIG. X. Y"
re_two ==
  Cat(<<FIG, Opt(dot), Star(ws), Grp(1, Rep(dig, 1, 2)), Star(ws), dot, Star(ws),
        Plus(dig), NotAhead(dig)>>)

step2(text0) == sub(text0, TRUE, re_two, LAMBDA m : "FIG. " \o group(text0, m, 1))

\* STEP 3: empty references
context_replace(text0, m, prefix_group) ==
  LET prefix == IF prefix_group # 0 THEN group(text0, m, prefix_group) ELSE group(text0, m, 0)
      start == max(0, start0(m) - WinEmptyBefore)
      end == min(Len(text0), end0(m) + WinEmptyAfter)
      context == slice(text0, start, end)
      fig_num == get_figure_number_from_context(context)
      prefix_clean == rstrip(prefix)
  IN  prefix_clean \o " FIG. " \o str(fig_num) \o "."

as_opt == Opt(Cat(<<Lit("as"), Plus(ws)>>))

empty_patterns ==
  <<Cat(<<Grp(1, Cat(<<as_opt, Lit("shown"), Plus(ws), Lit("in")>>)), Star(ws), dot>>),
    Cat(<<Grp(1, Cat(<<as_opt, Lit("illustrated"), Plus(ws), Lit("in")>>)), Star(ws), dot>>),
    Cat(<<Grp(1, Cat(<<as_opt, Lit("depicted"), Plus(ws), Lit("in")>>)), Star(ws), dot>>),
    Cat(<<Grp(1, Cat(<<as_opt, Lit("displayed"), Plus(ws), Lit("in")>>)), Star(ws), dot>>),
    Cat(<<Grp(1, Cat(<<as_opt, Lit("presented"), Plus(ws), Lit("in")>>)), Star(ws), dot>>),
    Cat(<<Grp(1, Cat(<<Lit("represented"), Plus(ws),
                       Opt(Cat(<<Lit("visually"), Plus(ws)>>)), Lit("in")>>)),
          Star(ws), dot>>),
    Cat(<<Grp(1, Cat(<<Opt(Cat(<<Lit("These"), Plus(ws), Lit("are"), Plus(ws)>>)),
                       Alt(<<Lit("represented"), Lit("shown")>>), Plus(ws),
                       Lit("visually"), Plus(ws), Lit("in")>>)),
          Star(ws), dot>>),
    Cat(<<Grp(1, Cat(<<Opt(Cat(<<Lit("A"), Plus(ws)>>)), Lit("visual"), Plus(ws),
                       Lit("reference"), Plus(ws),
                       Opt(Cat(<<Lit("for"), Plus(ws), Plus(wd), Plus(ws)>>)),
                       Lit("is"), Plus(ws), Lit("shown"), Plus(ws), Lit("in")>>)),
          Star(ws), dot>>),
    Cat(<<Grp(1, Alt(<<Lit("See"), Cat(<<Lit("Refer"), Plus(ws), Lit("to")>>)>>)),
          Star(ws), dot>>),
    Cat(<<Grp(1, Cat(<<Lit("in"), Plus(ws), FIG, Opt(dot)>>)), Star(ws), dot>>)>>

RECURSIVE EmptyFrom(_, _, _)
\* the loop over empty_patterns, patterns lo..hi in order (the turns are taken
\* by halves, which keeps the evaluation shallow)
EmptyFrom(text0, lo, hi) ==
  IF lo = hi
  THEN sub(text0, TRUE, empty_patterns[lo], LAMBDA m : context_replace(text0, m, 1))
  ELSE CHOOSE t2 \in {EmptyFrom(t1, ((lo + hi) \div 2) + 1, hi) :
                         t1 \in {EmptyFrom(text0, lo, (lo + hi) \div 2)}} : TRUE

step3(text0) == EmptyFrom(text0, 1, Len(empty_patterns))

\* STEP 4: "FIG. X and ." (missing second figure)
SecondFig(first_fig, second_fig) ==
  IF second_fig = first_fig THEN min(first_fig + 1, NumFigures) ELSE second_fig

AndPair(first_fig, second_fig) ==
  "FIG. " \o str(first_fig) \o " and FIG. " \o str(SecondFig(first_fig, second_fig)) \o "."

fix_and_empty(text0, m) ==
  AndPair(int(group(text0, m, 1)),
          get_figure_number_from_context(
            slice(text0, max(0, start0(m) - WinAndBefore), end0(m))))

re_and_empty ==
  Cat(<<FIG, Opt(dot), Star(ws), Grp(1, Rep(dig, 1, 2)), Plus(ws), Lit("and"), Star(ws), dot>>)

step4(text0) == sub(text0, TRUE, re_and_empty, LAMBDA m : fix_and_empty(text0, m))

\* STEP 5: "Figure X" to "FIG. X"
re_figure == Cat(<<Lit("Figure"), Plus(ws), Grp(1, Rep(dig, 1, 2))>>)

step5(text0) == sub(text0, TRUE, re_figure, LAMBDA m : "FIG. " \o group(text0, m, 1))

\* STEP 6: FIG spacing (case-sensitive)
re_fig_sp   == Cat(<<FIG, Plus(ws), Grp(1, dig)>>)
re_fig_dot  == Cat(<<FIG, dot, Grp(1, dig)>>)
re_fig_wide == Cat(<<FIG, dot, Rep(ws, 2, -1), Grp(1, dig)>>)

step6a(text0) == sub(text0, FALSE, re_fig_sp, LAMBDA m : "FIG. " \o group(text0, m, 1))
step6b(text0) == sub(text0, FALSE, re_fig_dot, LAMBDA m : "FIG. " \o group(text0, m, 1))
step6c(text0) == sub(text0, FALSE, re_fig_wide, LAMBDA m : "FIG. " \o group(text0, m, 1))

step6(text0) == step6c(step6b(step6a(text0)))

\* STEP 7: standalone "FIG. ." without number
fix_standalone_fig(text0, m) ==
  LET start == max(0, start0(m) - WinStandaloneBefore)
      context == slice(text0, start, start0(m))
      fig_num == get_figure_number_from_context(context)
  IN  "FIG. " \o str(fig_num) \o "."

re_standalone == Cat(<<FIG, dot, Star(ws), dot, NotAhead(dig)>>)

step7(text0) == sub(text0, TRUE, re_standalone, LAMBDA m : fix_standalone_fig(text0, m))

\* STEP 8: figure numbers wrapped into the valid range
Wrapped(num) ==
  IF num < 1 THEN 1
  ELSE IF num > NumFigures THEN ((num - 1) % NumFigures) + 1
  ELSE num

validate_fig(text0, m) == "FIG. " \o str(Wrapped(int(group(text0, m, 1))))

re_fig_num == Cat(<<FIG, dot, Star(ws), Grp(1, Plus(dig))>>)

step8(text0) == sub(text0, TRUE, re_fig_num, LAMBDA m : validate_fig(text0, m))

\* STEP 9: remaining FIG duplications
re_dup_pair == Cat(<<FIG, Plus(ws), FIG>>)

step9b(text0) == sub(text0, TRUE, re_dup_pair, LAMBDA m : "FIG")

step9(text0) == step9b(step0a(text0))

\* STEP 10: consistent formatting "FIG. X" (case-sensitive)
re_fig_loose == Cat(<<FIG, Star(ws), dot, Star(ws), Grp(1, Plus(dig))>>)

step10(text0) == sub(text0, FALSE, re_fig_loose, LAMBDA m : "FIG. " \o group(text0, m, 1))

\* STEP 11: implicit references
fix_implicit_reference(text0, m) ==
  LET full_match == group(text0, m, 0)
      phrase == group(text0, m, 1)
      following == group(text0, m, 2)
      start == max(0, start0(m) - WinImplicitBefore)
      end == min(Len(text0), end0(m) + WinImplicitAfter)
      context == slice(text0, start, end)
      fig_num == get_figure_number_from_context(context)
  IN  IF Contains(slice(upper(following), 0, NearbyLen), "FIG")
      THEN full_match
      ELSE phrase \o " FIG. " \o str(fig_num) \o ", " \o lstrip(following)

the_word == Cat(<<Lit("the"), Plus(ws), Plus(wd)>>)
two_words == Cat(<<Plus(Cls(Chars(LOWER))), Plus(ws), Plus(wd)>>)

implicit_patterns ==
  <<Cat(<<Grp(1, Cat(<<as_opt, Lit("illustrated"), Plus(ws), Lit("in")>>)), Plus(ws), Grp(2, the_word)>>),
    Cat(<<Grp(1, Cat(<<as_opt, Lit("shown"), Plus(ws), Lit("in")>>)), Plus(ws), Grp(2, the_word)>>),
    Cat(<<Grp(1, Cat(<<as_opt, Lit("depicted"), Plus(ws), Lit("in")>>)), Plus(ws), Grp(2, the_word)>>),
    Cat(<<Grp(1, Cat(<<as_opt, Lit("displayed"), Plus(ws), Lit("in")>>)), Plus(ws), Grp(2, the_word)>>),
    Cat(<<Grp(1, Cat(<<Lit("represented"), Plus(ws), Lit("visually"), Plus(ws), Lit("in")>>)),
          Plus(ws), Grp(2, the_word)>>),
    Cat(<<Grp(1, Cat(<<as_opt, Lit("illustrated"), Plus(ws), Lit("in")>>)), Plus(ws), Grp(2, two_words)>>),
    Cat(<<Grp(1, Cat(<<as_opt, Lit("shown"), Plus(ws), Lit("in")>>)), Plus(ws), Grp(2, two_words)>>)>>

RECURSIVE ImplicitFrom(_, _, _)
\* the loop over implicit_patterns, patterns lo..hi in order
ImplicitFrom(text0, lo, hi) ==
  IF lo = hi
  THEN sub(text0, TRUE, implicit_patterns[lo], LAMBDA m : fix_implicit_reference(text0, m))
  ELSE CHOOSE t2 \in {ImplicitFrom(t1, ((lo + hi) \div 2) + 1, hi) :
                         t1 \in {ImplicitFrom(text0, lo, (lo + hi) \div 2)}} : TRUE

step11(text0) == ImplicitFrom(text0, 1, Len(implicit_patterns))

\* STEP 12: references ending with comma or period without figure
fix_trailing_implicit(text0, m) ==
  LET phrase == group(text0, m, 1)
      punct == group(text0, m, 2)
      start == max(0, start0(m) - WinTrailingBefore)
      context == slice(text0, start, end0(m))
      fig_num == get_figure_number_from_context(context)
  IN  phrase \o " FIG. " \o str(fig_num) \o punct

\* variant of the punctuation class of STEP 12 that holds the period only
period_only == Cls({"."})

comma_dot == Cls({",", "."})

trailing_patterns ==
  <<Cat(<<Grp(1, Cat(<<as_opt, Lit("illustrated"), Plus(ws), Lit("in")>>)), Star(ws), Grp(2, comma_dot)>>),
    Cat(<<Grp(1, Cat(<<as_opt, Lit("shown"), Plus(ws), Lit("in")>>)), Star(ws), Grp(2, comma_dot)>>),
    Cat(<<Grp(1, Cat(<<as_opt, Lit("depicted"), Plus(ws), Lit("in")>>)), Star(ws), Grp(2, comma_dot)>>),
    Cat(<<Grp(1, Cat(<<Lit("represented"), Plus(ws), Lit("visually"), Plus(ws), Lit("in")>>)),
          Star(ws), Grp(2, comma_dot)>>)>>

RECURSIVE TrailingFrom(_, _, _)
\* the loop over trailing_patterns, patterns lo..hi in order
TrailingFrom(text0, lo, hi) ==
  IF lo = hi
  THEN sub(text0, TRUE, trailing_patterns[lo], LAMBDA m : fix_trailing_implicit(text0, m))
  ELSE CHOOSE t2 \in {TrailingFrom(t1, ((lo + hi) \div 2) + 1, hi) :
                         t1 \in {TrailingFrom(text0, lo, (lo + hi) \div 2)}} : TRUE

step12(text0) == TrailingFrom(text0, 1, Len(trailing_patterns))

\* STEP 13: no "in FIG." without number
fix_fig_without_number(text0, m) ==
  LET start == max(0, start0(m) - WinFinalBefore)
      context == slice(text0, start, end0(m))
      fig_num == get_figure_number_from_context(context)
  IN  "in FIG. " \o str(fig_num)

re_in_fig == Cat(<<Lit("in"), Plus(ws), FIG, dot, NotAhead(Cat(<<Star(ws), dig>>))>>)

step13(text0) == sub(text0, TRUE, re_in_fig, LAMBDA m : fix_fig_without_number(text0, m))

\* STEP 14: double commas, periods and spaces (case-sensitive)
re_comma2 == Cat(<<FIG, dot, Plus(ws), Grp(1, Plus(dig)), Star(ws), Lit(","), Star(ws), Lit(",")>>)
re_dot2   == Cat(<<FIG, dot, Plus(ws), Grp(1, Plus(dig)), Star(ws), dot, Star(ws), dot>>)
re_spaces == Rep(ws, 2, -1)

step14a(text0) == sub(text0, FALSE, re_comma2, LAMBDA m : "FIG. " \o group(text0, m, 1) \o ",")
step14b(text0) == sub(text0, FALSE, re_dot2, LAMBDA m : "FIG. " \o group(text0, m, 1) \o ".")
step14c(text0) == sub(text0, FALSE, re_spaces, LAMBDA m : " ")

step14(text0) == step14c(step14b(step14a(text0)))

LastStage == 14

Stage(k, text0) ==
  CASE k = 0 -> step0(text0)   [] k = 1 -> step1(text0)   [] k = 2 -> step2(text0)
    [] k = 3 -> step3(text0)   [] k = 4 -> step4(text0)   [] k = 5 -> step5(text0)
    [] k = 6 -> step6(text0)   [] k = 7 -> step7(text0)   [] k = 8 -> step8(text0)
    [] k = 9 -> step9(text0)   [] k = 10 -> step10(text0) [] k = 11 -> step11(text0)
    [] k = 12 -> step12(text0) [] k = 13 -> step13(text0) [] k = 14 -> step14(text0)

RECURSIVE RunStages(_, _, _)
\* stages lo..hi in order; a stage's result is computed before the next stage
\* starts (the stages are run by halves, which keeps the evaluation shallow)
RunStages(text0, lo, hi) ==
  IF lo = hi THEN Stage(lo, text0)
  ELSE CHOOSE t2 \in {RunStages(t1, ((lo + hi) \div 2) + 1, hi) :
                         t1 \in {RunStages(text0, lo, (lo + hi) \div 2)}} : TRUE

\* (the argument is a value before the first stage starts)
fix_all_figure_references(text0) ==
  CHOOSE t2 \in {RunStages(t1, 0, LastStage) : t1 \in {text0}} : TRUE


(***************************************************************************)
(* CELL 6: clean_text                                                      *)
(***************************************************************************)
\* the patterns, on the ASCII range (the en dash of the second one is left out)
ARTIFACTS ==
  <<Cat(<<Lit("END"), Star(ws), Lit("OF"), Star(ws), Lit("PART"), Star(ws), Plus(dig)>>),
    Cat(<<Lit("PART"), Star(ws), Plus(dig), Star(ws), Cls({"-", ":"})>>),
    Cat(<<Lit("(Insert"), Plus(ws), Plus(NotCls({")"})), Lit(")")>>),
    Cat(<<Lit("[Insert"), Plus(ws), Plus(NotCls({"]"})), Lit("]")>>),
    Cat(<<Lit("<<"), Plus(NotCls({">"})), Lit(">>")>>),
    Cat(<<Lit("[FIGURE"), Star(NotCls({"]"})), Lit("]")>>),
    Cat(<<Lit("IMAGE"), Star(ws), Lit("PLACEHOLDER")>>),
    Cat(<<Lit("Patent"), Plus(ws), Lit("Figures"), Star(ws), Lit("("), Plus(NotCls({")"})),
          Lit(")")>>)>>

\* text = re.sub(p, '', text, flags=re.IGNORECASE) for the k-th pattern
remove_artifact(text0, k) == sub(text0, TRUE, ARTIFACTS[k], LAMBDA m : "")

RECURSIVE RemoveFrom(_, _, _)
\* the loop over ARTIFACTS, patterns lo..hi in order
RemoveFrom(text0, lo, hi) ==
  IF lo = hi THEN remove_artifact(text0, lo)
  ELSE CHOOSE t2 \in {RemoveFrom(t1, ((lo + hi) \div 2) + 1, hi) :
                         t1 \in {RemoveFrom(text0, lo, (lo + hi) \div 2)}} : TRUE

re_blanks == Plus(Cls({" ", "\t"}))
\* variant of the run pattern that starts at five line breaks
re_breaks_from5 == Rep(Cls({"\n"}), 5, -1)

re_breaks == Rep(Cls({"\n"}), 4, -1)
re_twice  == Cat(<<Lit("("), Grp(1, Plus(dig)), Lit(")"), Star(ws), Lit("("), Ref(1), Lit(")")>>)

\* re.sub(r'[ \t]+', ' ', text)
one_blank(text0) == sub(text0, FALSE, re_blanks, LAMBDA m : " ")

\* re.sub(r'\n{4,}', '\n\n\n', text)
three_breaks(text0) == sub(text0, FALSE, re_breaks, LAMBDA m : "\n\n\n")

\* re.sub(r'\((\d+)\)\s*\(\1\)', r'(\1)', text)
once(text0) == sub(text0, FALSE, re_twice, LAMBDA m : "(" \o group(text0, m, 1) \o ")")

\* the steps of clean_text after the loop: 1 to 3 the substitutions, 4 the strip
LastClean == 4

Clean(k, text0) ==
  CASE k = 1 -> one_blank(text0)
    [] k = 2 -> three_breaks(text0)
    [] k = 3 -> once(text0)
    [] k = 4 -> strip(text0)

RECURSIVE CleanFrom(_, _, _)
\* the statements lo..hi of clean_text in order, statement 0 being the loop over
\* ARTIFACTS
CleanFrom(text0, lo, hi) ==
  IF lo = hi
  THEN IF lo = 0 THEN RemoveFrom(text0, 1, Len(ARTIFACTS)) ELSE Clean(lo, text0)
  ELSE CHOOSE t2 \in {CleanFrom(t1, ((lo + hi) \div 2) + 1, hi) :
                         t1 \in {CleanFrom(text0, lo, (lo + hi) \div 2)}} : TRUE

clean_text(text0) == CleanFrom(text0, 0, LastClean)

(***************************************************************************)
(* CELL 11: extract_claims                                                 *)
(***************************************************************************)
\* texts reaching extract_claims have been through fix_symbols, which turns
\* the dashes outside ASCII into "-": the separator class is given on ASCII
sep == Cls({".", "-", ":"} \cup Space)
cap == Cls(Upper)
not_nl == NotCls({"\n"})

\* (?:CLAIMS?|WHAT\s*IS\s*CLAIMED)[^\n]*\n(.*)   re.I | re.S
re_claims_heading ==
  Cat(<<Alt(<<Cat(<<Lit("CLAIM"), Opt(Lit("S"))>>),
              Cat(<<Lit("WHAT"), Star(ws), Lit("IS"), Star(ws), Lit("CLAIMED")>>)>>),
        Star(not_nl), Lit("\n"), Grp(1, Star(AnyCh))>>)

claim_label == Cat(<<Opt(Cat(<<Lit("CLAIM"), Star(ws)>>)), Rep(dig, 1, 2), Plus(sep), cap>>)

\* the claim-block pattern   re.S | re.I
re_claim_block ==
  Cat(<<Alt(<<Bol, Lit("\n")>>), Star(ws), Opt(Cat(<<Lit("CLAIM"), Star(ws)>>)),
        Grp(1, Rep(dig, 1, 2)), Plus(sep), Grp(2, Cat(<<cap, LazyStar(AnyCh)>>)),
        Ahead(Alt(<<Cat(<<Lit("\n"), Star(ws), claim_label>>),
                    Cat(<<Lit("\n"), Star(ws), Lit("("), Plus(dig), Lit(")"), Star(ws), cap>>),
                    Eos>>))>>)

\* \s*\(\d+\)\s*[A-Z][A-Z\s]+$   (case-sensitive)
re_trailing_header ==
  Cat(<<Star(ws), Lit("("), Plus(dig), Lit(")"), Star(ws), cap,
        Plus(Cls(Upper \cup Space)), Eol>>)

\* \s*(INDUSTRIAL|BEST\s*MODE|PCT|WIPO).*$   re.I
re_trailing_section ==
  Cat(<<Star(ws),
        Grp(1, Alt(<<Lit("INDUSTRIAL"), Cat(<<Lit("BEST"), Star(ws), Lit("MODE")>>),
                     Lit("PCT"), Lit("WIPO")>>)),
        Star(not_nl), Eol>>)

\* the back-reference test   re.I
re_dependent ==
  Alt(<<Cat(<<Lit("claim"), Plus(ws), Plus(dig)>>),
        Cat(<<Lit("according"), Plus(ws), Lit("to"), Plus(ws), Lit("claim")>>),
        Cat(<<Lit("as"), Plus(ws), Alt(<<Lit("claimed"), Lit("recited")>>), Plus(ws),
              Lit("in"), Plus(ws), Lit("claim")>>),
        Cat(<<Lit("of"), Plus(ws), Lit("claim"), Plus(ws), Plus(dig)>>)>>)

\* the text the claim pattern is run on
ScopeOf(text0, match) == IF match.ok THEN group(text0, match, 1) ELSE text0

SearchScope(text0) == ScopeOf(text0, search(text0, TRUE, re_claims_heading))

\* txt of one candidate: whitespace collapsed, trailing headers removed
Collapsed(body) == strip(sub(body, FALSE, Plus(ws), LAMBDA m : " "))
NoHeader(txt) == sub(txt, FALSE, re_trailing_header, LAMBDA m : "")
NoSection(txt) == sub(txt, TRUE, re_trailing_section, LAMBDA m : "")

ClaimText(body) == NoSection(NoHeader(Collapsed(body)))

MaxClaimNumber == 65
MinClaimLen == 20

\* variant of the admission test with the number limit exclusive
AdmitBelow(num, txt, seen0) ==
  num \notin seen0 /\ num < MaxClaimNumber /\ Len(txt) >= MinClaimLen

Admit(num, txt, seen0) == num \notin seen0 /\ num <= MaxClaimNumber /\ Len(txt) >= MinClaimLen

IsDependent(txt) == search(txt, TRUE, re_dependent).ok

RECURSIVE InsertSorted(_, _)
\* where a stable sort puts record c among the sorted records cs
InsertSorted(cs, c) ==
  IF cs = <<>> THEN <<c>>
  ELSE IF cs[Len(cs)].number <= c.number THEN Append(cs, c)
  ELSE Append(InsertSorted(SubSeq(cs, 1, Len(cs) - 1), c), cs[Len(cs)])

RECURSIVE SortFrom(_, _, _)
SortFrom(cs, k, acc) == IF k > Len(cs) THEN acc ELSE SortFrom(cs, k + 1, InsertSorted(acc, cs[k]))

\* variant of the final step that leaves the records in scan order
unsorted(cs) == cs

\* claims.sort(key=lambda x: x['number'])
sort_by_number(cs) == SortFrom(cs, 1, <<>>)

(***************************************************************************)
(* CELL 11: parse_sections                                                 *)
(***************************************************************************)
\* the piece of s before the line break at cut, then the rest split again
RECURSIVE SplitAt(_, _)
SplitAt(s, cut) ==
  IF cut = 0 THEN <<s>>
  ELSE <<SubSeq(s, 1, cut - 1)>>
       \o SplitAt(SubSeq(s, cut + 1, Len(s)),
                  Least({i \in (cut + 1)..Len(s) : Ch(s, i) = "\n"}, cut) - cut)

\* text.split('\n')
split(s) == SplitAt(s, Least({i \in 1..Len(s) : Ch(s, i) = "\n"}, 0))

RECURSIVE join(_, _)
\* d.join(ls)
join(ls, d) ==
  IF ls = <<>> THEN ""
  ELSE IF Len(ls) = 1 THEN ls[1]
  ELSE join(SubSeq(ls, 1, Len(ls) - 1), d) \o d \o ls[Len(ls)]

SECTION_MARKERS ==
  <<[pattern |-> Lit("TITLE"), key |-> "title"],
    [pattern |-> Lit("ABSTRACT"), key |-> "abstract"],
    [pattern |-> Lit("FIELD"), key |-> "field"],
    [pattern |-> Lit("BACKGROUND"), key |-> "background"],
    [pattern |-> Lit("SUMMARY"), key |-> "summary"],
    [pattern |-> Cat(<<Lit("BRIEF"), Star(ws), Lit("DESC")>>), key |-> "brief"],
    [pattern |-> Cat(<<Lit("DETAILED"), Star(ws), Lit("DESC")>>), key |-> "detailed"],
    [pattern |-> Lit("ENABLEMENT"), key |-> "enablement"],
    [pattern |-> Lit("SECURITY"), key |-> "security"],
    [pattern |-> Lit("COPYRIGHT"), key |-> "copyright"],
    [pattern |-> Lit("ALTERNATIVE"), key |-> "alternatives"],
    [pattern |-> Lit("SECONDARY"), key |-> "secondary"],
    [pattern |-> Lit("CLAIM"), key |-> "claims"],
    [pattern |-> Cat(<<Lit("WHAT"), Star(ws), Lit("IS"), Star(ws), Lit("CLAIMED")>>),
     key |-> "claims"],
    [pattern |-> Lit("INDUSTRIAL"), key |-> "industrial"],
    [pattern |-> Cat(<<Lit("BEST"), Star(ws), Lit("MODE")>>), key |-> "best_mode"],
    [pattern |-> Alt(<<Lit("PCT"), Lit("WIPO"), Lit("BOILERPLATE")>>), key |-> "boilerplate"]>>

\* ^\(?\d*\)?\s*  in front of a marker's pattern
heading_prefix == <<Bol, Opt(Lit("(")), Star(dig), Opt(Lit(")")), Star(ws)>>

\* f'^\\(?\\d*\\)?\\s*{pattern}': the prefix is joined to the text of the pattern,
\* so it belongs to the first alternative of a pattern with | at its top
heading_re(pattern) ==
  IF pattern.k = "alt"
  THEN Alt(<<Cat(heading_prefix \o <<Head(pattern.sub)>>)>> \o Tail(pattern.sub))
  ELSE Cat(heading_prefix \o <<pattern>>)

\* the longest stripped line that can be a heading is one character shorter
HeadingLen == 120

\* the pattern each marker's line is matched with
heading_res == [k \in 1..Len(SECTION_MARKERS) |-> heading_re(SECTION_MARKERS[k].pattern)]

\* re.match(...) and len(line.strip()) < 120, for marker k
IsHeading(upper0, len, k) ==
  /\ MatchAt(upper0, FALSE, heading_res[k], 1).ok
  /\ len < HeadingLen

\* found: the key of the first marker the line matches, "none" for None
FoundIn(hits) == IF hits = {} THEN "none" ELSE SECTION_MARKERS[Least(hits, 0)].key

FoundUpper(upper0, len) ==
  FoundIn({k \in 1..Len(SECTION_MARKERS) : IsHeading(upper0, len, k)})

\* upper = line.strip().upper() and the loop over SECTION_MARKERS
Found(l) == FoundUpper(upper(strip(l)), Len(strip(l)))

\* sections with txt stored under role current0 (after a blank line when the
\* role holds text already)
Stored(sections0, current0, txt) ==
  [r \in DOMAIN sections0 \cup {current0} |->
     IF r = current0
     THEN (IF current0 \in DOMAIN sections0 THEN sections0[current0] \o "\n\n" ELSE "") \o txt
     ELSE sections0[r]]

\* every role is stored at a heading
MayStoreAlways(current0, sections0) == TRUE

\* current not in sections or current == 'claims'
MayStore(current0, sections0) == current0 \notin DOMAIN sections0 \/ current0 = "claims"

\* current not in sections
MayStoreLast(current0, sections0) == current0 \notin DOMAIN sections0

\* '\n'.join(content).strip()
BlockText(content0) == strip(join(content0, "\n"))

\* the flush a heading line triggers
FlushWith(sections0, current0, content0, txt) ==
  IF content0 # <<>> /\ txt # "" /\ MayStore(current0, sections0)
  THEN Stored(sections0, current0, txt)
  ELSE sections0

FlushAtHeading(sections0, current0, content0) ==
  FlushWith(sections0, current0, content0, BlockText(content0))

\* the flush after the last line
FlushLastWith(sections0, current0, content0, txt) ==
  IF content0 # <<>> /\ txt # "" /\ MayStoreLast(current0, sections0)
  THEN [r \in DOMAIN sections0 \cup {current0} |-> IF r = current0 THEN txt ELSE sections0[r]]
  ELSE sections0

FlushAtEnd(sections0, current0, content0) ==
  FlushLastWith(sections0, current0, content0, BlockText(content0))

RECURSIVE ParseFrom(_, _, _, _, _)
RECURSIVE ParseLine(_, _, _, _, _, _)
\* the loop over the lines ls, from line k on, and the final flush
ParseFrom(ls, k, current0, content0, sections0) ==
  IF k > Len(ls) THEN FlushAtEnd(sections0, current0, content0)
  ELSE ParseLine(ls, k, current0, content0, sections0, Found(ls[k]))

ParseLine(ls, k, current0, content0, sections0, found) ==
  IF found # "none"
  THEN ParseFrom(ls, k + 1, found, <<>>, FlushAtHeading(sections0, current0, content0))
  ELSE ParseFrom(ls, k + 1, current0, Append(content0, ls[k]), sections0)

\* parse_sections as one function
parse_sections(text0) == ParseFrom(split(text0), 1, "preamble", <<>>, [r \in {} |-> ""])

(***************************************************************************)
(* CELL 6, 10 and 14: fix_symbols, extract_text and main                   *)
(***************************************************************************)
\* text.replace(old, new) for the pairs of syms, on the ASCII range: the
\* characters of every other pair lie outside it, and the two adjacent pairs
\* whose first string opens with three quotes read as the one pair below
fix_symbols(text0) == sub(text0, FALSE, Lit(", \"'\"), ("), LAMBDA m : "'")

\* the text of the pages, each followed by a blank line
PageText(page) == page \o "\n\n"

\* clean_text, fix_all_figure_references and fix_symbols, in this order, each
\* on the value the one before returned
Repaired(text0) ==
  CHOOSE t3 \in {fix_symbols(t2) : t2 \in {fix_all_figure_references(t1) : t1 \in {clean_text(text0)}}} :
    TRUE

\* extract_text, for a document of one page
extract_text(page) == Repaired(PageText(page))

(***************************************************************************)
(* CELL 6 and 12: clean_for_pdf and make_paragraphs                        *)
(***************************************************************************)
\* the punctuation of the ASCII range (the grave accent cannot be written in a
\* string of this language and is left out)
PUNCT == "!\"#$%&'()*+,-./:;<=>?@[\\]^_{|}~"

\* the characters text.encode('ascii', 'ignore') keeps, control characters
\* other than whitespace left aside
Ascii == Letter \cup Digit \cup Space \cup Chars(PUNCT)

\* the entity written for a markup character
Entity(c) ==
  CASE c = "&" -> "&amp;"
    [] c = "<" -> "&lt;"
    [] c = ">" -> "&gt;"

\* text.replace('&', '&amp;').replace('<', '&lt;').replace('>', '&gt;')
escape(text0) == sub(text0, FALSE, Cls({"&", "<", ">"}), LAMBDA m : Entity(group(text0, m, 0)))

\* text.encode('ascii', 'ignore').decode('ascii')
ascii(text0) == sub(text0, FALSE, NotCls(Ascii), LAMBDA m : "")

clean_for_pdf(text0) ==
  IF text0 = "" THEN ""
  ELSE CHOOSE t3 \in {strip(ascii(t2)) : t2 \in {escape(t1) : t1 \in {Repaired(text0)}}} : TRUE

\* the pieces of t between the matches ms
Pieces(t, ms) ==
  [a \in 1..(Len(ms) + 1) |->
     SubSeq(t, IF a = 1 THEN 1 ELSE ms[a - 1].e, IF a <= Len(ms) THEN ms[a].s - 1 ELSE Len(t))]

\* \n\s*\n
re_blank_line == Cat(<<Lit("\n"), Star(ws), Lit("\n")>>)

\* re.split(r'\n\s*\n', content)
split_blocks(content0) == Pieces(content0, finditer(content0, FALSE, re_blank_line))

\* cleaned.split('. ')
split_sentences(cleaned) == Pieces(cleaned, finditer(cleaned, FALSE, Lit(". ")))

\* fewest characters of a piece that is packaged, exclusive
MinBlockLen == 5

\* if p and len(p) > 5, and if cleaned
Usable(p) == p # "" /\ Len(p) > MinBlockLen /\ clean_for_pdf(p) # ""

\* Paragraph(text, styles[style_name]) of the rendering library, when it
\* accepts the text
Paragraph(text0, style) == [text |-> text0, style |-> style]

RetryBelow == 10

\* len(claims) <= 10 in place of len(claims) < 10
RetryAtMost(claims0, sections0) == Len(claims0) <= RetryBelow /\ "claims" \in DOMAIN sections0

\* variant of the test without the limit on the first result
RetryAlways(claims0, sections0) == "claims" \in DOMAIN sections0

\* len(claims) < 10 and 'claims' in sections
NeedsRetry(claims0, sections0) == Len(claims0) < RetryBelow /\ "claims" \in DOMAIN sections0

(***************************************************************************)
(* Inputs                                                                  *)
(***************************************************************************)
\* longest input, in fragments, of the repair runs
MaxFrags == 2

RepairVocab ==
  {"shown in", "as illustrated in", "Depicted  in", "the valence dimension is shown in",
   ".", ",", ";", " ", "FIG", "fig 20", " the box"}

RECURSIVE Concats(_, _)
\* the texts made of exactly k fragments of V
Concats(V, k) == IF k = 0 THEN {""} ELSE {a \o b : a \in Concats(V, k - 1), b \in V}

RepairInputs == UNION {Concats(RepairVocab, k) : k \in 1..MaxFrags}

\* the malformed markers of the duplicate-collapse stages
DupInputs == {"FIG FIG. " \o str(n) : n \in 1..NumFigures}

MultiInputs ==
  {"FIG. " \o str(n) \o ". " \o a \o ". " \o b \o "." : n \in 1..NumFigures, a \in Digit, b \in Digit}

CollapseInputs == DupInputs \cup MultiInputs

\* longest window, in words, handed to the resolver
MaxWords == 2

WindowVocab ==
  {"system", "architecture", "pipeline", "768", "fingerprint", "narrative", "Narrative vector",
   "composition", "audio", "rhythm", "VALENCE", "emotional vector", "33", "taxonomy",
   "ai provider", "fusion", "schema", "api", "cloud", "rbac", "royalty", "drift",
   "dimension", "shown in", "x", "capital"}

RECURSIVE Phrases(_, _)
\* the windows made of exactly k words of V, spaces between
Phrases(V, k) ==
  IF k = 0 THEN {""}
  ELSE IF k = 1 THEN V
  ELSE {a \o " " \o b : a \in Phrases(V, k - 1), b \in V}

\* windows whose words stand on several lines or are set apart by tabs
BrokenWindows ==
  {"fusion\nx audio y", "fusion\tx audio y", "x\nfusion\ny audio", "audio\ncloud",
   "the schema\n\tfusion"}

Windows == UNION {Phrases(WindowVocab, k) : k \in 0..MaxWords} \cup BrokenWindows

\* most numbered blocks in a document handed to extract_claims
MaxBlocks == 2

\* the numbered blocks documents are made of: a label and a body
BlockParts ==
  {<<"1", "A method comprising">>,                          \* body of 19 characters
   <<"1", "A system including b">>,                         \* body of 20 characters
   <<"14", "A method according to claim 1, wherein x">>,
   <<"14", "A system including b">>,
   <<"5", "A device   that\n has it.">>,
   <<"05", "A system including b">>,
   <<"65", "A system including b">>,
   <<"66", "A system including b">>,
   <<"0", "A system including b">>,
   <<"Claim 7", "A system including b">>}

Blocks == {p[1] \o ". " \o p[2] : p \in BlockParts}

RECURSIVE Lines(_, _)
\* the documents made of exactly k lines of V
Lines(V, k) ==
  IF k = 0 THEN {""}
  ELSE IF k = 1 THEN V
  ELSE {a \o "\n" \o b : a \in Lines(V, k - 1), b \in V}

\* documents with a claims heading line, and blocks whose body ends in a
\* section header or uses a header's word in its prose
HeadedDocs ==
  {"CLAIMS\n1. A system including b\n14. A method according to claim 1, wherein x",
   "1. A background item number one\nWhat is claimed\n2. A system including b",
   "Claim\n5. A device   that\n has it.",
   "1. A method of making widgets for industrial use",
   "1. A system that is the best mode of it\n2. A system including b",
   "1. A system including b\nINDUSTRIAL APPLICABILITY\nThe system is made",
   "1. A system including b (2) BEST MODE",
   "3. A system including b\n(4) WIPO\nThe office"}

ClaimDocs == UNION {Lines(Blocks, k) : k \in 1..MaxBlocks} \cup HeadedDocs

\* most lines in a document handed to parse_sections
MaxLines == 4

\* the lines documents are made of: two headings and two body lines
SectionLines == {"CLAIMS", "SUMMARY", "a", "b c"}

\* documents with blank lines, numbered headings and the other claims heading
MarkedDocs ==
  {"(2) What is claimed:\na\n\nSUMMARY\n \nCLAIMS\nb c",
   "ABSTRACT\na\nCLAIMS\n \n(3) ABSTRACT\n\tb c \n\na\nSUMMARY\na",
   "SUMMARY\na\nSUMMARY\nb c\nCLAIMS\na\nSUMMARY\na\nCLAIMS\nb c",
   "a\n12) Claims\n1. a\nWhat is claimed\n2. b c\nBest Mode\nCLAIMS\n3. a",
   "WIPO\na\n(5) WIPO\nb c\n(5) PCT\na"}

SectionDocs == UNION {Lines(SectionLines, k) : k \in 1..MaxLines} \cup MarkedDocs

\* most fragments in a text handed to clean_text
MaxParts == 3

\* the fragments texts are made of: numbers in parentheses, artifacts, pieces
\* an artifact can be assembled from, and whitespace
CleanVocab == {"(1)", " ", "\n\n", "END OF PA", "PART 1:", "RT 2", "<<a>>"}

\* longest run of line breaks in a text handed to clean_text
MaxBreaks == 6

RECURSIVE Breaks(_)
\* a run of k line breaks
Breaks(k) == IF k = 0 THEN "" ELSE Breaks(k - 1) \o "\n"

\* numbers in parentheses set apart by runs of line breaks, two runs with a
\* blank between them, and a run at the end of the text
BreakInputs ==
  {"(1)" \o Breaks(j) \o "(2)" \o Breaks(k) \o "(3)" : j \in 0..MaxBreaks, k \in 0..MaxBreaks}
  \cup {"(1)" \o Breaks(k) \o " " \o Breaks(2) \o "(2)" \o Breaks(k) : k \in 0..MaxBreaks}

CleanInputs == UNION {Concats(CleanVocab, k) : k \in 1..MaxParts} \cup BreakInputs

\* most blocks in a content handed to make_paragraphs
MaxParas == 2

\* the blocks contents are made of: sentences, a short block, an empty
\* sentence, markup characters, and a block that cleaning empties
ParaBlocks ==
  {"It has a box. It is shown in. The end",
   "A & B. ",
   "Short",
   "One is <big>. . Two",
   "END OF PAPART 1:RT 2"}

\* what stands between two blocks
ParaBreaks == {"\n\n", "\n \t\n\n"}

RECURSIVE Contents(_, _)
\* the contents made of exactly k blocks of V
Contents(V, k) ==
  IF k = 0 THEN {""}
  ELSE IF k = 1 THEN V
  ELSE {a \o b \o c : a \in Contents(V, k - 1), b \in ParaBreaks, c \in V}

ParaInputs == UNION {Contents(ParaBlocks, k) : k \in 0..MaxParas}

\* most numbered blocks in a document handed to main
MaxDocClaims == 11

RECURSIVE Numbered(_, _)
\* n numbered blocks, the first one numbered from
Numbered(from, n) ==
  IF n = 0 THEN ""
  ELSE Numbered(from, n - 1) \o str(from + n - 1) \o ". A system including b\n"

\* what precedes and follows the numbered blocks: nothing, a claims heading,
\* a section that holds the word "claimed" and a numbered line of its own, and
\* a section after the claims that holds a numbered line
Openings ==
  {[head |-> "", from |-> 1, tail |-> ""],
   [head |-> "CLAIMS\n", from |-> 1, tail |-> ""],
   [head |-> "ABSTRACT\nThe claimed thing\n1. A background item number one\nCLAIMS\n",
    from |-> 2, tail |-> ""],
   [head |-> "CLAIMS\n", from |-> 1, tail |-> "ABSTRACT\n20. A numbered item of it\n"]}

\* the numbers of blocks: none, and those about the limit of the retry
BlockCounts == {0} \cup {n \in 1..MaxDocClaims : n + 3 >= MaxDocClaims}

MainDocs == {o.head \o Numbered(o.from, n) \o o.tail : o \in Openings, n \in BlockCounts}

\* the greatest number written in a marker
MaxMarker == 36

\* a marker with the number v
MarkerOf(v) == "FIG. " \o str(v)

NumberInputs == {MarkerOf(v) : v \in 0..MaxMarker}

\* what stands before a conjunction of two markers
PairContexts == {"", "drift ", "pipeline ", "audio "}

\* a conjunction whose second marker is missing
PairInputs == {c \o MarkerOf(a) \o " and ." : c \in PairContexts, a \in 0..MaxMarker}

\* reference phrases, and the words between a phrase and the marker after it
ReferencePhrases == {"as illustrated in", "shown in"}
WordsBetween == {"the", "detail", "detail in", "the drawing of"}

\* a reference phrase with a marker at most 15 characters after it
NearInputs == {p \o " " \o w \o " " \o MarkerOf(5) : p \in ReferencePhrases, w \in WordsBetween}

\* a reference phrase with no marker after it
FarInputs == {p \o " " \o w \o " here" : p \in ReferencePhrases, w \in WordsBetween}

\* the canonical reference to figure n
Canonical(n) == "as shown in " \o MarkerOf(n)

\* what surrounds a canonical reference
CanonicalBefore == {"", "The box, "}
CanonicalAfter == {"", ".", ", is big.", " and FIG. 2", " here"}

\* canonical references to the figures of the catalog
CanonicalInputs ==
  {b \o Canonical(n) \o a : n \in 1..NumFigures, b \in CanonicalBefore, a \in CanonicalAfter}

\* texts of several lines: headings after a blank line, a line that ends in
\* a blank, a line that starts with one, and lines with nothing between them
LineInputs ==
  {"Title\n\nCLAIMS\n1. A system", "SUMMARY\nThe box is big.\n\nCLAIMS\n1. A system including b",
   "a\nb", "a \nb", "a\n b", "x\n\n\nABSTRACT\nA box", "see FIG. 2\nSUMMARY\nb"}

MarkerInputs ==
  NumberInputs \cup PairInputs \cup NearInputs \cup FarInputs \cup CanonicalInputs \cup LineInputs

(***************************************************************************)
(* State machine                                                           *)
(***************************************************************************)
\* no section has been stored
NoSections == [r \in {} |-> ""]

\* make_paragraphs has not run
IdleParagraphs ==
  parts = <<>> /\ part = 0 /\ sents = <<>> /\ sent = 0 /\ paragraphs = <<>> /\ log = <<>>

\* parse_sections, main and make_paragraphs have not run
IdleRest ==
  /\ lines = <<>> /\ line = 0 /\ current = "" /\ content = <<>> /\ sections = NoSections
  /\ exists = TRUE /\ calls = <<>> /\ handed = <<>> /\ result = "none"
  /\ IdleParagraphs

Idle ==
  /\ text = "" /\ stage = 0 /\ run = 0 /\ first = "" /\ fig = 0
  /\ scope = "" /\ cands = <<>> /\ idx = 0 /\ seen = {} /\ claims = <<>>
  /\ IdleRest

\* fix_all_figure_references is called on input
InitRepair ==
  /\ input \in RepairInputs
  /\ text = input /\ pc = "repair" /\ stage = 0 /\ run = 1 /\ first = "" /\ fig = 0
  /\ scope = "" /\ cands = <<>> /\ idx = 0 /\ seen = {} /\ claims = <<>>
  /\ IdleRest

InitCollapse ==
  /\ input \in CollapseInputs
  /\ text = input /\ pc = "repair" /\ stage = 0 /\ run = 1 /\ first = "" /\ fig = 0
  /\ scope = "" /\ cands = <<>> /\ idx = 0 /\ seen = {} /\ claims = <<>>
  /\ IdleRest

InitMarkers ==
  /\ input \in MarkerInputs
  /\ text = input /\ pc = "repair" /\ stage = 0 /\ run = 1 /\ first = "" /\ fig = 0
  /\ scope = "" /\ cands = <<>> /\ idx = 0 /\ seen = {} /\ claims = <<>>
  /\ IdleRest

\* get_figure_number_from_context is called on input
InitResolve == input \in Windows /\ pc = "resolve" /\ Idle

\* extract_claims is called on input
InitClaims == input \in ClaimDocs /\ pc = "scope" /\ Idle

\* parse_sections is called on input: the lines are split and the loop starts
InitSections ==
  /\ input \in SectionDocs /\ pc = "parse"
  /\ lines = split(input) /\ line = 1
  /\ current = "preamble" /\ content = <<>> /\ sections = NoSections
  /\ text = "" /\ stage = 0 /\ run = 0 /\ first = "" /\ fig = 0
  /\ scope = "" /\ cands = <<>> /\ idx = 0 /\ seen = {} /\ claims = <<>>
  /\ exists = TRUE /\ calls = <<>> /\ handed = <<>> /\ result = "none"
  /\ IdleParagraphs

\* clean_text is called on input
InitClean ==
  /\ input \in CleanInputs
  /\ text = input /\ pc = "remove" /\ stage = 1 /\ run = 1 /\ first = "" /\ fig = 0
  /\ scope = "" /\ cands = <<>> /\ idx = 0 /\ seen = {} /\ claims = <<>>
  /\ IdleRest

\* main is called; input is the text of the source document's page, if the
\* document exists
InitMain ==
  /\ input \in MainDocs /\ exists \in BOOLEAN /\ pc = "main"
  /\ text = "" /\ stage = 0 /\ run = 0 /\ first = "" /\ fig = 0
  /\ scope = "" /\ cands = <<>> /\ idx = 0 /\ seen = {} /\ claims = <<>>
  /\ lines = <<>> /\ line = 0 /\ current = "" /\ content = <<>> /\ sections = NoSections
  /\ calls = <<>> /\ handed = <<>> /\ result = "none"
  /\ IdleParagraphs

\* STEP k of fix_all_figure_references: text = ...
Step(k) ==
  /\ pc = "repair" /\ stage = k
  /\ text' = Stage(k, text)
  /\ stage' = k + 1
  /\ pc' = IF k = LastStage THEN "repaired" ELSE "repair"
  /\ UNCHANGED <<segv, mainv, parav, input, run, first, fig, scope, cands, idx, seen, claims>>

Step0 == Step(0)
Step1 == Step(1)
Step2 == Step(2)
Step3 == Step(3)
Step4 == Step(4)
Step5 == Step(5)
Step6 == Step(6)
Step7 == Step(7)
Step8 == Step(8)
Step9 == Step(9)
Step10 == Step(10)
Step11 == Step(11)
Step12 == Step(12)
Step13 == Step(13)
Step14 == Step(14)

\* the returned text is handed to fix_all_figure_references again, as
\* make_paragraphs and clean_for_pdf do with the text extract_text repaired
Rerun ==
  /\ pc = "repaired" /\ run = 1
  /\ first' = text
  /\ run' = 2 /\ stage' = 0 /\ pc' = "repair"
  /\ UNCHANGED <<segv, mainv, parav, input, text, fig, scope, cands, idx, seen, claims>>

Repair ==
  \/ Step0 \/ Step1 \/ Step2 \/ Step3 \/ Step4 \/ Step5 \/ Step6 \/ Step7
  \/ Step8 \/ Step9 \/ Step10 \/ Step11 \/ Step12 \/ Step13 \/ Step14

\* get_figure_number_from_context(input) returns
Resolve ==
  /\ pc = "resolve"
  /\ fig' = get_figure_number_from_context(input)
  /\ pc' = "resolved"
  /\ UNCHANGED <<segv, mainv, parav, input, text, stage, run, first, scope, cands, idx, seen, claims>>

\* extract_claims: the scope is chosen and the pattern's matches are found
SelectScope ==
  /\ pc = "scope"
  /\ scope' = SearchScope(input)
  /\ cands' = finditer(scope', TRUE, re_claim_block)
  /\ idx' = 1 /\ seen' = {} /\ claims' = <<>>
  /\ pc' = "scan"
  /\ UNCHANGED <<segv, mainv, parav, input, text, stage, run, first, fig>>

\* num and txt of the match m
NumOf(search0, m) == int(group(search0, m, 1))
TextOf(search0, m) == ClaimText(group(search0, m, 2))

ClaimRecord(num, txt) == [number |-> num, text |-> txt, is_dependent |-> IsDependent(txt)]

\* one turn of the loop whose candidate is admitted
ScanAdmit ==
  /\ pc = "scan" /\ idx <= Len(cands)
  /\ \E num \in {NumOf(scope, cands[idx])}, txt \in {TextOf(scope, cands[idx])} :
        /\ Admit(num, txt, seen)
        /\ seen' = seen \cup {num}
        /\ claims' = Append(claims, ClaimRecord(num, txt))
  /\ idx' = idx + 1
  /\ UNCHANGED <<segv, mainv, parav, input, text, pc, stage, run, first, fig, scope, cands>>

\* one turn of the loop whose candidate is passed over
ScanSkip ==
  /\ pc = "scan" /\ idx <= Len(cands)
  /\ ~Admit(NumOf(scope, cands[idx]), TextOf(scope, cands[idx]), seen)
  /\ idx' = idx + 1
  /\ UNCHANGED <<segv, mainv, parav, input, text, pc, stage, run, first, fig, scope, cands, seen, claims>>

\* the loop is over: claims.sort(...) and return
SortClaims ==
  /\ pc = "scan" /\ idx > Len(cands)
  /\ claims' = sort_by_number(claims)
  /\ pc' = "extracted"
  /\ UNCHANGED <<segv, mainv, parav, input, text, stage, run, first, fig, scope, cands, idx, seen>>

Extract == SelectScope \/ ScanAdmit \/ ScanSkip \/ SortClaims

\* what the actions of parse_sections leave alone
others == <<input, text, stage, run, first, fig, scope, cands, idx, seen, claims, mainv, parav>>

\* a line that starts a section: the block before it is flushed
HeadingLine ==
  /\ pc = "parse" /\ line <= Len(lines)
  /\ Found(lines[line]) # "none"
  /\ sections' = FlushAtHeading(sections, current, content)
  /\ current' = Found(lines[line])
  /\ content' = <<>>
  /\ line' = line + 1
  /\ UNCHANGED <<others, pc, lines>>

\* any other line: content.append(line)
BodyLine ==
  /\ pc = "parse" /\ line <= Len(lines)
  /\ Found(lines[line]) = "none"
  /\ content' = Append(content, lines[line])
  /\ line' = line + 1
  /\ UNCHANGED <<others, pc, lines, current, sections>>

\* the loop is over: the last block is flushed and sections is returned
EndOfInput ==
  /\ pc = "parse" /\ line > Len(lines)
  /\ sections' = FlushAtEnd(sections, current, content)
  /\ pc' = "parsed"
  /\ UNCHANGED <<others, lines, line, current, content>>

Parse == HeadingLine \/ BodyLine \/ EndOfInput

\* one turn of the loop over ARTIFACTS
RemoveArtifact ==
  /\ pc = "remove"
  /\ text' = remove_artifact(text, stage)
  /\ stage' = IF stage = Len(ARTIFACTS) THEN 1 ELSE stage + 1
  /\ pc' = IF stage = Len(ARTIFACTS) THEN "clean" ELSE "remove"
  /\ UNCHANGED <<segv, mainv, parav, input, run, first, fig, scope, cands, idx, seen, claims>>

\* the k-th step after the loop; the last one returns
CleanStep(k) ==
  /\ pc = "clean" /\ stage = k
  /\ text' = Clean(k, text)
  /\ stage' = k + 1
  /\ pc' = IF k = LastClean THEN "cleaned" ELSE "clean"
  /\ UNCHANGED <<segv, mainv, parav, input, run, first, fig, scope, cands, idx, seen, claims>>

OneBlank == CleanStep(1)
ThreeBreaks == CleanStep(2)
Once == CleanStep(3)
Strip == CleanStep(4)

\* the returned text is handed to clean_text again, as make_paragraphs does
\* with the text extract_text cleaned
CleanAgain ==
  /\ pc = "cleaned" /\ run = 1
  /\ first' = text
  /\ run' = 2 /\ stage' = 1 /\ pc' = "remove"
  /\ UNCHANGED <<segv, mainv, parav, input, text, fig, scope, cands, idx, seen, claims>>

CleanText == RemoveArtifact \/ OneBlank \/ ThreeBreaks \/ Once \/ Strip \/ CleanAgain

Init == InitRepair
Next == Repair \/ Rerun
Spec == Init /\ [][Next]_vars

SpecCollapse == InitCollapse /\ [][Repair]_vars

SpecMarkers == InitMarkers /\ [][Repair]_vars

SpecResolve == InitResolve /\ [][Resolve]_vars

SpecClaims == InitClaims /\ [][Extract]_vars

SpecSections == InitSections /\ [][Parse]_vars

SpecClean == InitClean /\ [][CleanText]_vars

\* extract_claims as one function
RECURSIVE ScanFrom(_, _, _, _, _)
RECURSIVE Consider(_, _, _, _, _, _, _)

\* the loop over the matches ms, from match k on
ScanFrom(search0, ms, k, seen0, claims0) ==
  IF k > Len(ms) THEN claims0
  ELSE Consider(search0, ms, k, seen0, claims0, NumOf(search0, ms[k]), TextOf(search0, ms[k]))

Consider(search0, ms, k, seen0, claims0, num, txt) ==
  IF Admit(num, txt, seen0)
  THEN ScanFrom(search0, ms, k + 1, seen0 \cup {num}, Append(claims0, ClaimRecord(num, txt)))
  ELSE ScanFrom(search0, ms, k + 1, seen0, claims0)

ClaimsIn(search0) == sort_by_number(ScanFrom(search0, finditer(search0, TRUE, re_claim_block), 1, {}, <<>>))

extract_claims(text0) == ClaimsIn(SearchScope(text0))

(***************************************************************************)
(* main: one action per statement.  calls lists the functions main has     *)
(* called, each with the argument it was given and the value it returned   *)
(***************************************************************************)
\* a call main made: the function, its argument and what it returned
Call(fn, arg, ret) == [fn |-> fn, arg |-> arg, ret |-> ret]

\* os.path.exists(TEXT_SOURCE_PDF)
SourceAssumed == TRUE

SourceFound == exists

\* what main leaves alone
scans == <<stage, run, first, fig, scope, cands, idx, seen, segmenter, parav>>

\* the text source is not there: return False
MainAbort ==
  /\ pc = "main" /\ ~SourceFound
  /\ result' = "False"
  /\ pc' = "returned"
  /\ UNCHANGED <<input, text, claims, sections, scans, exists, calls, handed>>

\* full_text = extract_text(TEXT_SOURCE_PDF)
MainText ==
  /\ pc = "main" /\ SourceFound
  /\ text' = extract_text(input)
  /\ calls' = Append(calls, Call("extract_text", input, text'))
  /\ pc' = "text"
  /\ UNCHANGED <<input, claims, sections, scans, exists, handed, result>>

\* sections = parse_sections(full_text)
MainSections ==
  /\ pc = "text"
  /\ sections' = parse_sections(text)
  /\ calls' = Append(calls, Call("parse_sections", text, sections'))
  /\ pc' = "sections"
  /\ UNCHANGED <<input, text, claims, scans, exists, handed, result>>

\* claims = extract_claims(full_text)
MainClaims ==
  /\ pc = "sections"
  /\ claims' = extract_claims(text)
  /\ calls' = Append(calls, Call("extract_claims", text, claims'))
  /\ pc' = "claims"
  /\ UNCHANGED <<input, text, sections, scans, exists, handed, result>>

\* claims = extract_claims(sections['claims'])
MainRetry ==
  /\ pc = "claims" /\ NeedsRetry(claims, sections)
  /\ claims' = extract_claims(sections["claims"])
  /\ calls' = Append(calls, Call("extract_claims", sections["claims"], claims'))
  /\ pc' = "figures"
  /\ UNCHANGED <<input, text, sections, scans, exists, handed, result>>

\* the test of the retry fails
MainNoRetry ==
  /\ pc = "claims" /\ ~NeedsRetry(claims, sections)
  /\ pc' = "figures"
  /\ UNCHANGED <<input, text, claims, sections, scans, mainv>>

\* figure_files: extract_figures is called when the figure source is there
MainFigures ==
  /\ pc = "figures"
  /\ \E there \in BOOLEAN :
        calls' = IF there THEN Append(calls, Call("extract_figures", "", <<>>)) ELSE calls
  /\ pc' = "build"
  /\ UNCHANGED <<input, text, claims, sections, scans, exists, handed, result>>

\* success = build_patent_pdf(sections, claims, figure_files, OUTPUT_PDF), which
\* returns True, or False after an exception; return success
MainBuild ==
  /\ pc = "build"
  /\ handed' = claims
  /\ \E success \in BOOLEAN :
        /\ calls' = Append(calls, Call("build_patent_pdf", claims, success))
        /\ result' = IF success THEN "True" ELSE "False"
  /\ pc' = "returned"
  /\ UNCHANGED <<input, text, claims, sections, scans, exists>>

Main ==
  \/ MainAbort \/ MainText \/ MainSections \/ MainClaims
  \/ MainRetry \/ MainNoRetry \/ MainFigures \/ MainBuild

SpecMain == InitMain /\ [][Main]_vars

(***************************************************************************)
(* make_paragraphs: one action per turn of its loops.  The rendering       *)
(* library is not part of the program: Paragraph(...) either returns the   *)
(* paragraph or raises                                                     *)
(***************************************************************************)
\* make_paragraphs(input, styles) is called
InitParagraphs ==
  /\ input \in ParaInputs /\ pc = "paragraphs"
  /\ text = "" /\ stage = 0 /\ run = 0 /\ first = "" /\ fig = 0
  /\ scope = "" /\ cands = <<>> /\ idx = 0 /\ seen = {} /\ claims = <<>>
  /\ IdleRest

\* what the actions of make_paragraphs leave alone
rest == <<input, stage, run, first, fig, scope, cands, idx, seen, claims, segv, mainv>>

\* if not content: return result
NoContent ==
  /\ pc = "paragraphs" /\ input = ""
  /\ pc' = "made"
  /\ UNCHANGED <<rest, text, parav>>

\* the content is cleaned and repaired, then split at the blank lines
Prepare ==
  /\ pc = "paragraphs" /\ input # ""
  /\ text' = Repaired(input)
  /\ parts' = split_blocks(text')
  /\ part' = 1
  /\ pc' = "block"
  /\ UNCHANGED <<rest, sents, sent, paragraphs, log>>

\* a piece that is empty or short, or that clean_for_pdf empties
BlockSkipped ==
  /\ pc = "block" /\ part <= Len(parts)
  /\ ~Usable(strip(parts[part]))
  /\ part' = part + 1
  /\ UNCHANGED <<rest, text, pc, parts, sents, sent, paragraphs, log>>

\* result.append(Paragraph(cleaned, styles[style_name]))
BlockMade ==
  /\ pc = "block" /\ part <= Len(parts)
  /\ Usable(strip(parts[part]))
  /\ paragraphs' = Append(paragraphs, Paragraph(clean_for_pdf(strip(parts[part])), "PatentBody"))
  /\ part' = part + 1
  /\ UNCHANGED <<rest, text, pc, parts, sents, sent, log>>

\* Paragraph raises: except Exception, the piece is split on '. '
BlockFailed ==
  /\ pc = "block" /\ part <= Len(parts)
  /\ Usable(strip(parts[part]))
  /\ sents' = split_sentences(clean_for_pdf(strip(parts[part])))
  /\ sent' = 1
  /\ pc' = "sentence"
  /\ UNCHANGED <<rest, text, parts, part, paragraphs, log>>

\* if s.strip() fails: the sentence is passed over
SentenceSkipped ==
  /\ pc = "sentence" /\ sent <= Len(sents)
  /\ strip(sents[sent]) = ""
  /\ sent' = sent + 1
  /\ UNCHANGED <<rest, text, pc, parts, part, sents, paragraphs, log>>

\* result.append(Paragraph(s.strip() + '.', styles[style_name]))
SentenceMade ==
  /\ pc = "sentence" /\ sent <= Len(sents)
  /\ strip(sents[sent]) # ""
  /\ paragraphs' = Append(paragraphs, Paragraph(strip(sents[sent]) \o ".", "PatentBody"))
  /\ sent' = sent + 1
  /\ UNCHANGED <<rest, text, pc, parts, part, sents, log>>

\* Paragraph raises again: except: pass
SentenceDropped ==
  /\ pc = "sentence" /\ sent <= Len(sents)
  /\ strip(sents[sent]) # ""
  /\ sent' = sent + 1
  /\ UNCHANGED <<rest, text, pc, parts, part, sents, paragraphs, log>>

\* the sentences are through: the loop over the pieces goes on
SentencesDone ==
  /\ pc = "sentence" /\ sent > Len(sents)
  /\ part' = part + 1
  /\ pc' = "block"
  /\ UNCHANGED <<rest, text, parts, sents, sent, paragraphs, log>>

\* return result
ParagraphsDone ==
  /\ pc = "block" /\ part > Len(parts)
  /\ pc' = "made"
  /\ UNCHANGED <<rest, text, parav>>

MakeParagraphs ==
  \/ NoContent \/ Prepare \/ BlockSkipped \/ BlockMade \/ BlockFailed
  \/ SentenceSkipped \/ SentenceMade \/ SentenceDropped \/ SentencesDone \/ ParagraphsDone

SpecParagraphs == InitParagraphs /\ [][MakeParagraphs]_vars

(***************************************************************************)
(* Properties of fix_all_figure_references (specification Spec)            *)
(***************************************************************************)
\* C1: running the whole repair sequence again on a repaired text changes
\* nothing: when the second run has finished, the text is what the first run
\* returned.
C1_RepairIdempotent == (pc = "repaired" /\ run = 2) => text = first

\* a figure marker in any letter case and spacing, with the number after it
re_marker_number == Cat(<<FIG, Opt(dot), Star(ws), Grp(1, Plus(dig))>>)

MarkerNumbers(t) == {int(group(t, m, 1)) : m \in Range(finditer(t, TRUE, re_marker_number))}

\* C2: in a repaired text every figure marker, in whatever letter case or
\* spacing, carries a number n with 1 <= n <= 17.
C2_MarkerNumbersInRange == pc = "repaired" => MarkerNumbers(text) \subseteq 1..17

\* the trigger phrases "shown in", "illustrated in", "depicted in"
re_trigger ==
  Cat(<<Alt(<<Lit("shown"), Lit("illustrated"), Lit("depicted")>>), Plus(ws), Lit("in")>>)

Punctuation == {".", ",", ";", ":", "!", "?"}

DanglingPhrases == {"shown in", "as illustrated in", "the valence dimension is shown in"}

\* C4: a dangling reference phrase that ends a sentence is rewritten to
\* exactly "<phrase> FIG. k." where k is the figure the resolver returns for
\* the window around it (here the whole input); "the valence dimension is
\* shown in." becomes "the valence dimension is shown in FIG. 8.".
C4_SentenceEndGetsOneMarker ==
  \A p \in DanglingPhrases :
    (pc = "repaired" /\ run = 1 /\ input = p \o ".")
      => text = p \o " FIG. " \o str(get_figure_number_from_context(input)) \o "."

(***************************************************************************)
(* Markers, conjunctions and reference phrases (specification SpecMarkers) *)
(***************************************************************************)
\* a conjunction of two markers with the same number
re_same_pair ==
  Cat(<<Lit("FIG. "), Grp(1, Plus(dig)), Lit(" and FIG. "), Ref(1), NotAhead(dig)>>)

\* C18: the repair of a conjunction whose second marker is missing never ends
\* in a pair "FIG. a and FIG. a", whatever the first number and the context.
C18_PairNeverSelfReferential ==
  (pc = "repaired" /\ input \in PairInputs) => ~search(text, FALSE, re_same_pair).ok

\* what the wrap-around rule makes of the number v
WrapAround(v) == IF v \in 1..NumFigures THEN v ELSE ((v - 1) % NumFigures) + 1

\* C19: STEP 8 leaves a marker whose number is in 1..17 as it is and turns
\* every other number v, 0 included, into ((v - 1) mod 17) + 1; the marker
\* is not removed.
C19_OutOfRangeWrapped ==
  (pc = "repair" /\ stage = 9) =>
     \A v \in 0..MaxMarker : input = MarkerOf(v) => text = MarkerOf(WrapAround(v))

\* the markers of a text, whatever their letter case
MarkerCount(t) == Len(finditer(t, TRUE, FIG))

\* C20: STEP 11 inserts no marker after a reference phrase when a marker
\* stands within the 20 characters that follow the phrase.
C20_NoMarkerBeforeNearMarker ==
  (pc = "repair" /\ stage = 12 /\ input \in NearInputs) => MarkerCount(text) = MarkerCount(input)

\* the canonical reference to figure n with no further digit or number after it
re_canonical(n) ==
  Cat(<<Lit(Canonical(n)),
        NotAhead(Alt(<<dig, Cat(<<Star(ws), Lit("."), Star(ws), dig>>)>>))>>)

Referenced(t, n) == search(t, FALSE, re_canonical(n)).ok

\* C25: an already canonical, in-range reference is left unchanged: for every
\* n in 1..17 and every surrounding context, "as shown in FIG. n" stands in the
\* repaired text with the same single marker and the same number n, and no
\* marker or number has been inserted next to it.
C25_CanonicalReferenceKept ==
  pc = "repaired" =>
    \A n \in 1..17 :
      Referenced(input, n) => Referenced(text, n) /\ MarkerCount(text) = MarkerCount(input)

\* the line breaks of a text
LineBreaks(t) == Cardinality({i \in 1..Len(t) : Ch(t, i) = "\n"})

\* line k of the lines before is a heading, and line k of the lines after is
\* the same heading
HeadingKept(before, after, k) ==
  Found(before[k]) # "none" => (k <= Len(after) /\ Found(after[k]) = Found(before[k]))

\* C26: fix_all_figure_references preserves the line structure of its input:
\* the final cleanup collapses only runs of spaces, so every line break of the
\* input, blank lines before a heading included, is still there in the output
\* and parse_sections finds each heading on a line of its own after the repair.
C26_LineStructureKept ==
  pc = "repaired" =>
    /\ LineBreaks(text) = LineBreaks(input)
    /\ \A k \in 1..Len(split(input)) : HeadingKept(split(input), split(text), k)

(***************************************************************************)
(* Duplicate collapse (specification SpecCollapse)                         *)
(***************************************************************************)
\* C5: a duplicated marker token and a malformed multi-number marker are
\* collapsed to one canonical marker keeping the first number:
\* "FIG FIG. n" and "FIG. n. a. b." both become "FIG. n", for n in 1..17 and
\* digits a, b.
C5_CollapseKeepsFirstNumber ==
  pc = "repaired" =>
    \A n \in 1..17 :
      (\/ input = "FIG FIG. " \o str(n)
       \/ \E a \in Digit, b \in Digit :
            input = "FIG. " \o str(n) \o ". " \o a \o ". " \o b \o ".")
        => text = "FIG. " \o str(n)

\* the spec's multi-number case has been repaired
C5_MultiNumberCollapsed ==
  pc = "repaired" /\ input = "FIG. 17. 6. 6." /\ text = "FIG. 17"

(***************************************************************************)
(* The context resolver (specification SpecResolve)                        *)
(***************************************************************************)
\* no keyword of the catalog occurs in the window
NoKeywordIn(window) ==
  \A k \in 1..Len(FIGURES) : \A j \in 1..Len(FIGURES[k].keywords) :
    ~Contains(lower(window), FIGURES[k].keywords[j])

\* C6: for every window, the empty one included, the resolver returns one
\* figure id in 1..17, and it returns 1 when no catalog keyword occurs in the
\* window.
C6_ResolverInRange ==
  pc = "resolved" => (fig \in 1..17 /\ (NoKeywordIn(input) => fig = 1))

\* a window of words without any keyword has been resolved to the default
C6_DefaultTaken ==
  pc = "resolved" /\ input = "x dimension" /\ NoKeywordIn(input) /\ fig = 1

\* the turns of the loop whose keyword occurs in the window
Occurring(context_lower) == {k \in 1..Len(Keywords) : Occurs(context_lower, k)}

\* the turns, among turns, whose score is the greatest
TopTurns(context_lower, turns) ==
  {k \in turns : \A j \in turns :
     KeywordScore(context_lower, Keywords[j].keyword)
       <= KeywordScore(context_lower, Keywords[k].keyword)}

FirstTop(tops) == Keywords[Least(tops, 0)].num

\* C16: when several catalog entries reach the same greatest keyword score in
\* a window, the resolver returns the entry that comes first in the order of
\* FIGURES: a later entry replaces the best one only with a strictly greater
\* score.
C16_FirstOfEqualScoresWins ==
  (pc = "resolved" /\ Occurring(lower(input)) # {}) =>
     fig = FirstTop(TopTurns(lower(input), Occurring(lower(input))))

\* two entries reach the greatest score of the window, the one declared
\* later standing first in the window, and the one declared first is returned
C16_TieResolved ==
  /\ pc = "resolved" /\ input = "schema fusion"
  /\ {Keywords[k].num : k \in TopTurns(lower(input), Occurring(lower(input)))} = {11, 12}
  /\ fig = 11

\* whitespace: space, tab or line break
Blank == {" ", "\t", "\n", "\r"}

\* the keyword occurs at i, bounded on both sides by whitespace or by an end
\* of the window
BoundedAt(window, keyword, i) ==
  /\ SubSeq(window, i, i + Len(keyword) - 1) = keyword
  /\ (i = 1 \/ Ch(window, i - 1) \in Blank)
  /\ (i + Len(keyword) > Len(window) \/ Ch(window, i + Len(keyword)) \in Blank)

\* twice the length, and 5 more when an occurrence is bounded by whitespace
BoundedScore(window, keyword) ==
  Len(keyword) * 2
  + (IF \E i \in 1..(Len(window) - Len(keyword) + 1) : BoundedAt(window, keyword, i)
     THEN 5 ELSE 0)

\* C17: a keyword of length L that occurs in the window scores 2 * L, and 5
\* more exactly when an occurrence of it is bounded on both sides by
\* whitespace (space, tab or line break).
C17_BonusWhenBoundedByWhitespace ==
  pc = "resolved" =>
    \A k \in Occurring(lower(input)) :
      KeywordScore(lower(input), Keywords[k].keyword)
        = BoundedScore(lower(input), Keywords[k].keyword)

(***************************************************************************)
(* extract_claims (specification SpecClaims)                               *)
(***************************************************************************)
\* the number a label carries
LabelNumber(l) ==
  int(group(l, search(l, FALSE, Grp(1, Plus(dig))), 1))

\* blocks that pass the admission test on their own
AdmissibleParts ==
  {p \in BlockParts : LabelNumber(p[1]) \in 1..65 /\ Len(ClaimText(p[2])) >= 20}

\* does the body refer back to another claim
BackReferences(b) == Contains(lower(b), "according to claim")

Numbers(cs) == [i \in 1..Len(cs) |-> cs[i].number]
Flags(cs) == [i \in 1..Len(cs) |-> cs[i].is_dependent]

\* what C7 expects of a document of the two blocks p and q
ExpectedPair(p, q) ==
  IF LabelNumber(p[1]) < LabelNumber(q[1])
  THEN [numbers |-> <<LabelNumber(p[1]), LabelNumber(q[1])>>,
        flags |-> <<BackReferences(p[2]), BackReferences(q[2])>>]
  ELSE [numbers |-> <<LabelNumber(q[1]), LabelNumber(p[1])>>,
        flags |-> <<BackReferences(q[2]), BackReferences(p[2])>>]

\* C7: for a document of admissible numbered blocks in any order, some of
\* which refer back to another claim, extract_claims returns one record per
\* block, in ascending number order, with is_dependent true exactly for the
\* blocks that refer back ("14. A method according to claim 1, wherein ..."
\* before "1. ..." gives records 1 and 14, 14 dependent).
C7_OneRecordPerBlock ==
  pc = "extracted" =>
    \A p \in AdmissibleParts, q \in AdmissibleParts :
      (/\ input = p[1] \o ". " \o p[2] \o "\n" \o q[1] \o ". " \o q[2]
       /\ LabelNumber(p[1]) # LabelNumber(q[1]))
        => /\ Numbers(claims) = ExpectedPair(p, q).numbers
           /\ Flags(claims) = ExpectedPair(p, q).flags

\* C8: the list extract_claims returns is strictly ascending in number: it is
\* sorted and no two records share a number.
C8_StrictlyAscending ==
  pc = "extracted" =>
    \A i \in 1..Len(claims) : \A j \in 1..Len(claims) :
      i < j => claims[i].number < claims[j].number

\* two blocks met in descending order have both been admitted and returned
C8_SortedAfterDescendingScan ==
  /\ pc = "extracted" /\ Len(cands) = 2 /\ Len(claims) = 2
  /\ NumOf(scope, cands[1]) > NumOf(scope, cands[2])

\* the numbers admitted so far in this call
AdmittedNumbers == {claims[i].number : i \in 1..Len(claims)}

\* C9: a candidate block is admitted if and only if its number has not been
\* admitted already in this call, its number is at most 65, and its
\* whitespace-collapsed, header-stripped text has at least 20 characters.
C9_AdmittedIff ==
  [][(pc = "scan" /\ idx <= Len(cands)) =>
       ((claims' = Append(claims, ClaimRecord(NumOf(scope, cands[idx]), TextOf(scope, cands[idx]))))
          <=> (/\ NumOf(scope, cands[idx]) \notin AdmittedNumbers
               /\ NumOf(scope, cands[idx]) <= 65
               /\ Len(TextOf(scope, cands[idx])) >= 20))]_vars

\* a block with a 19-character body has been passed over and a block with a
\* 20-character body admitted
C9_BoundaryLengths ==
  /\ pc = "extracted" /\ Len(cands) = 2
  /\ Len(TextOf(scope, cands[1])) = 19
  /\ Len(claims) = 1 /\ Len(claims[1].text) = 20

\* C10: every record extract_claims returns has a number of at least 1,
\* blocks labelled 0 included.
C10_NumbersPositive ==
  pc = "extracted" => \A i \in 1..Len(claims) : claims[i].number >= 1

\* the lines that introduce the claims
ClaimsHeadings == {"CLAIM", "CLAIMS", "WHAT IS CLAIMED"}

IsClaimsHeading(l) == upper(strip(l)) \in ClaimsHeadings

\* the text after line k of ls
AfterLine(ls, k) == join(SubSeq(ls, k + 1, Len(ls)), "\n")

\* the text after the first claims heading line of ls, the whole text t when
\* no line is one
ScopeAfter(t, ls, headings) ==
  IF headings = {} THEN t ELSE AfterLine(ls, Least(headings, 0))

HeadingScope(t) ==
  ScopeAfter(t, split(t), {k \in 1..Len(split(t)) : IsClaimsHeading(split(t)[k])})

\* C21: extract_claims scans the entire text unless the text has a
\* claims-introduction heading line (CLAIM, CLAIMS, WHAT IS CLAIMED), and only
\* then scans the text after that line; the word "claim" inside prose or inside
\* a claim body does not narrow the scanned scope.
C21_ScopeNarrowedOnlyByHeading ==
  pc \in {"scan", "extracted"} => scope = HeadingScope(input)

\* the words section headers begin with
HeaderWords == {"INDUSTRIAL", "BEST MODE", "PCT", "WIPO"}

IsSectionHeader(l) == \E w \in HeaderWords : TextAt(upper(strip(l)), w, 1)

\* the body up to its first line, after the opening one, that is a section
\* header
BeforeHeader(ls, headers) ==
  IF headers = {} THEN join(ls, "\n") ELSE join(SubSeq(ls, 1, Least(headers, 0) - 1), "\n")

BodyProper(body) ==
  BeforeHeader(split(body), {k \in 2..Len(split(body)) : IsSectionHeader(split(body)[k])})

\* the text C22 expects of a body: whitespace collapsed, without the section
\* header captured at its end
ExpectedText(body) == NoHeader(Collapsed(BodyProper(body)))

\* C22: the text of every record extract_claims admits is the
\* whitespace-collapsed body of its block minus only a section-header fragment
\* captured at its end; a body without a section header, also one that uses
\* a word such as "industrial" in its prose, is emitted in full.
C22_TextIsBodyMinusTrailingHeader ==
  [][(pc = "scan" /\ idx <= Len(cands) /\ Len(claims') > Len(claims))
       => claims'[Len(claims')].text = ExpectedText(group(scope, cands[idx], 2))]_vars
(***************************************************************************)
(* parse_sections (specification SpecSections)                             *)
(***************************************************************************)
RECURSIVE ClaimBlocks(_, _, _, _)
\* the non-empty texts of the blocks of ls that follow a claims heading, in
\* source order, the block that runs to the end of the input included
ClaimBlocks(ls, k, current0, content0) ==
  IF k <= Len(ls) /\ Found(ls[k]) = "none"
  THEN ClaimBlocks(ls, k + 1, current0, Append(content0, ls[k]))
  ELSE (IF current0 = "claims" /\ BlockText(content0) # ""
        THEN <<BlockText(content0)>> ELSE <<>>)
       \o (IF k > Len(ls) THEN <<>> ELSE ClaimBlocks(ls, k + 1, Found(ls[k]), <<>>))

ClaimsEntryIs(blocks) ==
  IF blocks = <<>> THEN "claims" \notin DOMAIN sections
  ELSE "claims" \in DOMAIN sections /\ sections["claims"] = join(blocks, "\n\n")

\* C11: when parse_sections returns, the claims entry is the concatenation, in
\* source order, of the non-empty text of every block that follows a claims
\* heading, the last block flushed at the end of the input included.
C11_ClaimsEntryHoldsEveryBlock ==
  pc = "parsed" => ClaimsEntryIs(ClaimBlocks(lines, 1, "preamble", <<>>))

\* C12: once a role other than claims holds content, no later flush changes
\* that content: further blocks under the same heading are dropped.
C12_FirstBlockKept ==
  [][\A r \in DOMAIN sections \ {"claims"} :
        r \in DOMAIN sections' /\ sections'[r] = sections[r]]_vars

\* a second block of text under a role other than claims has been flushed
\* and the role holds another text
C12_SecondBlockDropped ==
  /\ pc = "parsed" /\ current # "claims"
  /\ current \in DOMAIN sections
  /\ BlockText(content) # ""
  /\ sections[current] # BlockText(content)

(***************************************************************************)
(* clean_text (specification SpecClean)                                    *)
(***************************************************************************)
\* C13: clean_text is idempotent: run on its own result it returns that result
\* unchanged, also when removing an artifact exposes another match and when a
\* number in parentheses is repeated three times or more.
C13_CleanIdempotent == (pc = "cleaned" /\ run = 2) => text = first


\* the run of line breaks that holds position i of t: its first and last place
RunFirst(t, i) == Least({j \in 1..i : \A k \in j..i : Ch(t, k) = "\n"}, i)
RunLast(t, i) == Greatest({j \in i..Len(t) : \A k \in i..j : Ch(t, k) = "\n"}, i)

\* is the character at i kept when runs of at least from line breaks are cut
\* down to their first to line breaks
Kept(t, i, from, to) ==
  \/ Ch(t, i) # "\n"
  \/ RunLast(t, i) - RunFirst(t, i) + 1 < from
  \/ i - RunFirst(t, i) < to

RECURSIVE Squeeze(_, _, _, _, _)
\* the characters lo..hi of t that are kept
Squeeze(t, lo, hi, from, to) ==
  IF lo > hi THEN ""
  ELSE IF lo = hi THEN (IF Kept(t, lo, from, to) THEN SubSeq(t, lo, lo) ELSE "")
  ELSE Squeeze(t, lo, (lo + hi) \div 2, from, to) \o Squeeze(t, ((lo + hi) \div 2) + 1, hi, from, to)

\* the longest run of line breaks of t
LongestRun(t) == Greatest({RunLast(t, i) - i + 1 : i \in {j \in 1..Len(t) : Ch(t, j) = "\n"}}, 0)

\* C23 as stated: clean_text replaces every run of four or more consecutive
\* line breaks by exactly two line breaks, so its output holds no run of more
\* than two line breaks that came from such a run.
C23_RunsBecomeTwoBreaks ==
  [][(pc = "clean" /\ stage = 2) => text' = Squeeze(text, 1, Len(text), 4, 2)]_vars

\* C23 amended: clean_text replaces every run of four or more consecutive
\* line breaks by exactly three line breaks and leaves shorter runs alone, so
\* the text it returns holds no run of more than three line breaks.
C23_RunsBecomeThreeBreaks ==
  [][/\ (pc = "clean" /\ stage = 2) => text' = Squeeze(text, 1, Len(text), 4, 3)
     /\ pc' = "cleaned" => LongestRun(text') <= 3]_vars

\* clean_text has returned a text with a run of three line breaks it made of
\* a longer run, next to a run of two it left alone
C23_LongRunCut ==
  /\ pc = "cleaned" /\ run = 1
  /\ LongestRun(input) > 3 /\ LongestRun(text) = 3
  /\ Contains(input, ")\n\n(") /\ Contains(text, ")\n\n(")

(***************************************************************************)
(* main (specification SpecMain)                                           *)
(***************************************************************************)
\* the calls main made of the function fn, in the order it made them
CallsOf(fn) == SelectSeq(calls, LAMBDA c : c.fn = fn)

\* the calls of extract_claims and the list handed over, the calls being ec
RetryRule(ec) ==
  /\ Len(ec) >= 1 /\ ec[1].arg = text
  /\ IF Len(ec[1].ret) < 10 /\ "claims" \in DOMAIN sections
     THEN Len(ec) = 2 /\ ec[2].arg = sections["claims"] /\ handed = ec[2].ret
     ELSE Len(ec) = 1 /\ handed = ec[1].ret

\* C14: when the call of extract_claims on the whole document admits fewer
\* than 10 claims and parse_sections produced a claims entry, extract_claims
\* is called a second time, on that entry's text, and build_patent_pdf is
\* handed the second call's result; otherwise extract_claims is called once
\* and build_patent_pdf is handed the first result.
C14_RetryOnClaimsSection ==
  (pc = "returned" /\ exists) =>
     /\ RetryRule(CallsOf("extract_claims"))
     /\ Len(CallsOf("build_patent_pdf")) = 1
     /\ CallsOf("build_patent_pdf")[1].arg = handed

\* main has returned after a second call whose result differs from the first
\* call's
C14_SecondResultHanded ==
  /\ pc = "returned" /\ exists
  /\ Len(CallsOf("extract_claims")) = 2
  /\ CallsOf("extract_claims")[2].ret # CallsOf("extract_claims")[1].ret
  /\ handed = CallsOf("extract_claims")[2].ret

\* C15: when the text source is absent, main returns False and has called
\* none of parse_sections, extract_claims and build_patent_pdf: no output
\* document is produced.
C15_AbortWithoutSource ==
  ~exists =>
     /\ calls = <<>> /\ handed = <<>> /\ sections = NoSections /\ claims = <<>>
     /\ pc \in {"main", "returned"}
     /\ pc = "returned" => result = "False"

\* main has returned without a text source
C15_Aborted == pc = "returned" /\ ~exists /\ result = "False"

\* C27 as stated: the claim list main hands to build_patent_pdf never has
\* fewer records than the extraction from the whole document produced: the
\* retry on the claims section can only keep or increase the number of admitted
\* claims.
C27_RetryNeverLosesClaims ==
  (pc = "returned" /\ exists) => Len(handed) >= Len(CallsOf("extract_claims")[1].ret)

\* the list handed over is shorter than the first result only after a retry,
\* the calls of extract_claims being ec
ShorterOnlyByRetry(ec) ==
  /\ Len(ec) = 1 => handed = ec[1].ret
  /\ Len(handed) < Len(ec[1].ret) =>
       /\ Len(ec) = 2 /\ handed = ec[2].ret
       /\ Len(ec[1].ret) < 10 /\ "claims" \in DOMAIN sections

\* C27 amended: the claim list main hands to build_patent_pdf has fewer
\* records than the extraction from the whole document produced only when the
\* retry on the claims section ran, that is when the first extraction admitted
\* fewer than 10 claims and there is a claims section; the retry's result then
\* replaces the first one whatever its size.  Without a retry the list is the
\* first result.
C27_FewerOnlyAfterRetry ==
  (pc = "returned" /\ exists) => ShorterOnlyByRetry(CallsOf("extract_claims"))

\* main has returned after a retry that admitted fewer claims than the
\* extraction from the whole document, a numbered line after the claims section
\* being what the retry lost
C27_RetryLostAClaim ==
  /\ pc = "returned" /\ exists
  /\ Len(CallsOf("extract_claims")) = 2
  /\ Len(handed) < Len(CallsOf("extract_claims")[1].ret)
  /\ 20 \in {c.number : c \in Range(CallsOf("extract_claims")[1].ret)}

(***************************************************************************)
(* make_paragraphs (specification SpecParagraphs)                          *)
(***************************************************************************)
\* a sentence of a piece that could not be packaged is being retried
Retrying == pc = "sentence" /\ sent <= Len(sents) /\ strip(sents[sent]) # ""

\* C24: when a piece cannot be packaged it is split into sentences and each
\* sentence is retried on its own: a sentence that packages is appended to the
\* result, a sentence that still fails is dropped with a logged warning, and
\* the loop goes on with the next sentence or piece without raising.
C24_FailedSentenceDroppedWithWarning ==
  [][Retrying =>
       /\ \/ /\ paragraphs' = Append(paragraphs, Paragraph(strip(sents[sent]) \o ".", "PatentBody"))
             /\ log' = log
          \/ /\ paragraphs' = paragraphs
             /\ Len(log') = Len(log) + 1
       /\ sent' = sent + 1 /\ pc' = "sentence"]_vars

====
